---- MODULE Spec2Model ----
(***************************************************************************)
(* Model of the validation / policy-gate engine of fairchild/dotclaude:    *)
(*   - the per-write hook gate, hooks/validators/skill_frontmatter_        *)
(*     validator.py (specification SpecHook);                              *)
(*   - the batch validator, .github/scripts/validate-config.py             *)
(*     (specification SpecBatch).                                          *)
(* Text is modelled as a sequence of tokens: a token is either the         *)
(* three-character delimiter "---" or a maximal chunk of other text.  A    *)
(* chunk carries the value yaml.safe_load gives for it (PyYAML is a        *)
(* library, not code of the repository).  Python values are records        *)
(* [t, n, s]: the type, the length (or the number) and the string content. *)
(***************************************************************************)
EXTENDS Integers, Sequences, FiniteSets, TLC

VARIABLES
    \* ---- hook gate ----
    stdin,      \* what the host harness puts on standard input
    fs,         \* the written file and its directory
    hpc,        \* position of the hook process
    vpc,        \* position inside validate_skill
    herrors,    \* validate_skill's local list `errors`
    hfm,        \* validate_skill's local `frontmatter`
    out,        \* objects emitted on stdout / stderr, in order
    hexit,      \* process exit code, NoExit while running
    reads,      \* filesystem reads performed so far
    writes,     \* filesystem writes performed so far
    called,     \* validate_skill has been entered
    visited,    \* positions the hook went through, in order
    \* ---- batch validator ----
    tree,       \* the repository being validated (schemas, json files, env)
    bpc,        \* position of main()
    results,    \* main's list `results`
    has_errors, \* main's flag `has_errors`
    bexit,      \* exit code of the batch process, NoExit while running
    nAgents,    \* agent files discovered so far
    nSkills,    \* skills/ entries discovered so far
    cur,        \* the ValidationResult under construction
    curFile,    \* the file or skill directory being validated
    fpc,        \* position inside validate_agent / validate_skill
    report,     \* what print_results wrote, NoReport before
    ghout       \* content appended to $GITHUB_OUTPUT

hookVars  == <<stdin, fs, hpc, vpc, herrors, hfm, out, hexit, reads, writes, called, visited>>
batchVars == <<tree, bpc, results, has_errors, bexit, nAgents, nSkills, cur, curFile, fpc,
               report, ghout>>
vars      == <<hookVars, batchVars>>

NoExit == -1

(***************************************************************************)
(* Bounds of the model                                                     *)
(***************************************************************************)
\* description lengths tried: 0 and every threshold -Slack .. +Slack
Slack == 1
\* agent files plus skills/ entries one batch run discovers
MaxFiles == 2

(***************************************************************************)
(* Program constants                                                       *)
(***************************************************************************)
HOOK_MIN_DESC  == 50
AGENT_MIN_DESC == 20
SKILL_MIN_DESC == 30

REQUIRED_FIELDS == <<"name", "description">>
FORBIDDEN_FILES == <<"README.md", "INSTALLATION.md", "CHANGELOG.md",
                     "QUICK_REFERENCE.md", "INSTALLATION_GUIDE.md">>

Range(s) == {s[i] : i \in 1..Len(s)}

(***************************************************************************)
(* Python values, as far as the validators look at them                    *)
(***************************************************************************)
PyAbsent   == [t |-> "absent", n |-> 0, s |-> ""]     \* the key is not in the mapping
PyNone     == [t |-> "none",   n |-> 0, s |-> ""]
PyStr(s,n) == [t |-> "str",    n |-> n, s |-> s]
PyInt(n)   == [t |-> "int",    n |-> n, s |-> ""]
PyList(n)  == [t |-> "list",   n |-> n, s |-> ""]

\* bool(v)
Truthy(v) ==
    CASE v.t = "none"            -> FALSE
      [] v.t \in {"str", "list"} -> v.n > 0
      [] v.t = "int"             -> v.n # 0
      [] OTHER                   -> FALSE

\* len(v) is defined (otherwise it raises TypeError)
HasLen(v) == v.t \in {"str", "list"}

(***************************************************************************)
(* What yaml.safe_load gives for a chunk of text.  t is the outcome:       *)
(*   "err_mapping"  YAMLError "mapping values are not allowed here"        *)
(*   "err_other"    any other YAMLError                                    *)
(*   "exc"          an exception that is no YAMLError (ValueError of an    *)
(*                  impossible date)                                       *)
(*   "none"         None: the chunk is empty or holds only comments        *)
(*   "dict"         a mapping; keys are the keys present                   *)
(*   "str", "list"  a scalar string, a sequence; keys are the names among  *)
(*                  name/description/model that `in` finds in it; n is its *)
(*                  length                                                 *)
(***************************************************************************)
Yaml(t, n, keys, name, description, model) ==
    [t |-> t, n |-> n, keys |-> keys, name |-> name, description |-> description,
     model |-> model]

YOutcome(t) == Yaml(t, 0, {}, PyAbsent, PyAbsent, PyAbsent)

YDict(name, description, model, other) ==
    Yaml("dict", 0,
         {k \in {"name"} : name.t # "absent"} \cup
         {k \in {"description"} : description.t # "absent"} \cup
         {k \in {"model"} : model.t # "absent"} \cup
         {k \in {"other"} : other},
         name, description, model)

\* fm[key] of a mapping
Get(fm, key) ==
    CASE key = "name"        -> fm.name
      [] key = "description" -> fm.description
      [] key = "model"       -> fm.model
      [] OTHER               -> PyAbsent

\* key in fm
In(key, fm) == key \in fm.keys

(***************************************************************************)
(* Text                                                                    *)
(***************************************************************************)
\* a token: the delimiter, or a chunk with its YAML value and the references
\* (markdown links, inline code spans) the regular expressions find in it
Delim    == [delim |-> TRUE,  y |-> YOutcome("none"), refs |-> <<>>]
Chunk(y) == [delim |-> FALSE, y |-> y, refs |-> <<>>]
Body     == Chunk(YOutcome("str"))
BodyWith(refs) == [delim |-> FALSE, y |-> YOutcome("str"), refs |-> refs]

\* a faulty variant of StartsWithDelim: the delimiter is looked for anywhere
StartsWithDelim_Anywhere(c) == \E i \in 1..Len(c) : c[i].delim

\* content.startswith("---")
StartsWithDelim(c) == Len(c) > 0 /\ c[1].delim

Min(S) == CHOOSE x \in S : \A y \in S : x <= y

\* a faulty variant of Split2: a missing third part is taken to be empty
Split2_Padded(c) ==
    LET ds == {i \in 1..Len(c) : c[i].delim} IN
    IF ds = {} THEN <<c>>
    ELSE LET d1 == Min(ds)
             r  == {i \in ds : i > d1} IN
         IF r = {} THEN <<SubSeq(c, 1, d1 - 1), SubSeq(c, d1 + 1, Len(c)), <<>>>>
         ELSE LET d2 == Min(r) IN
              <<SubSeq(c, 1, d1 - 1), SubSeq(c, d1 + 1, d2 - 1), SubSeq(c, d2 + 1, Len(c))>>

\* content.split("---", 2): at most three parts
Split2(c) ==
    LET ds == {i \in 1..Len(c) : c[i].delim} IN
    IF ds = {} THEN <<c>>
    ELSE LET d1 == Min(ds)
             r  == {i \in ds : i > d1} IN
         IF r = {} THEN <<SubSeq(c, 1, d1 - 1), SubSeq(c, d1 + 1, Len(c))>>
         ELSE LET d2 == Min(r) IN
              <<SubSeq(c, 1, d1 - 1), SubSeq(c, d1 + 1, d2 - 1), SubSeq(c, d2 + 1, Len(c))>>

\* yaml.safe_load of a part that holds no delimiter: one chunk at most
YamlLoad(part) == IF part = <<>> THEN YOutcome("none") ELSE part[1].y

(***************************************************************************)
(* Diagnostics.  A message is [kind, what, n, also]: the fixed text, the    *)
(* name it interpolates (a field, a file, an exception class), the number  *)
(* it interpolates and a second interpolated name.                         *)
(***************************************************************************)
Msg(kind, what, n) == [kind |-> kind, what |-> what, n |-> n, also |-> ""]
Msg2(kind, what, also) == [kind |-> kind, what |-> what, n |-> 0, also |-> also]

(***************************************************************************)
(* HOOK GATE: hooks/validators/skill_frontmatter_validator.py              *)
(***************************************************************************)
Path(dir, base) == [dir |-> dir, base |-> base]

\* Standard input.  kind:
\*   "not_json"               json.load raises JSONDecodeError
\*   "not_object"             JSON, but a list or a scalar
\*   "no_tool_input"          an object without "tool_input"
\*   "tool_input_not_object"  "tool_input" is a list or a scalar
\*   "no_file_path"           "tool_input" is an object without "file_path"
\*   "path_not_str"           "file_path" is null, a number, a list, ...
\*   "ok"                     "file_path" is the string `path`
Stdin(kind, path) == [kind |-> kind, path |-> path]

\* a faulty variant of ParseException: the fields are read with .get() and a default
ParseException_OnlyJson(s) == IF s.kind = "not_json" THEN "JSONDecodeError" ELSE ""

\* the exception hook_input["tool_input"]["file_path"] raises, "" if none
ParseException(s) ==
    CASE s.kind = "not_json"              -> "JSONDecodeError"
      [] s.kind = "not_object"            -> "TypeError"
      [] s.kind = "no_tool_input"         -> "KeyError"
      [] s.kind = "tool_input_not_object" -> "TypeError"
      [] s.kind = "no_file_path"          -> "KeyError"
      [] OTHER                            -> ""

\* the try block of __main__ ends without an exception
ParseSucceeds(s) == ParseException(s) = ""

\* a faulty variant of IsSkillManifest: every markdown file is taken for a manifest
IsSkillManifest_AnyMarkdown(path) == path.base \in {"SKILL.md", "README.md"}

\* path.name != "SKILL.md" is false
IsSkillManifest(path) == path.base = "SKILL.md"

Decision(stream, decision, reason, bullets) ==
    [kind |-> "decision", stream |-> stream, decision |-> decision, reason |-> reason,
     bullets |-> bullets]

\* the interpreter's report of an uncaught exception: no decision object
Traceback(exc) ==
    [kind |-> "traceback", stream |-> "stderr", decision |-> "none",
     reason |-> Msg("Traceback", exc, 0), bullets |-> <<>>]

ParseErrorOut(s) ==
    Decision("stderr", "block",
             Msg("Validator error: Failed to parse hook input", ParseException(s), 0), <<>>)

BlockOut(path, errors) ==
    Decision("stdout", "block", Msg("Skill validation failed for", path.base, 0), errors)

ContinueOut(path) ==
    Decision("stdout", "continue", Msg("Skill validation passed", path.base, 0), <<>>)

\* lines 28-57: the error of the early return, or "" when frontmatter is a mapping
HookFrontmatterError(file) ==
    IF ~file.readable THEN "Failed to read file"
    ELSE IF ~StartsWithDelim(file.content) THEN "Missing YAML frontmatter"
    ELSE LET parts == Split2(file.content) IN
         IF Len(parts) < 3 THEN "Invalid frontmatter structure (missing closing '---')"
         ELSE LET y == YamlLoad(parts[2]) IN
              IF y.t \in {"err_mapping", "err_other"} THEN "Invalid YAML frontmatter"
              ELSE IF y.t = "exc" THEN "Error parsing frontmatter"
              ELSE IF y.t # "dict" THEN "Frontmatter must be a YAML object/dictionary"
              ELSE ""

HookFrontmatter(file) == YamlLoad(Split2(file.content)[2])

\* lines 60-64, one field
HookFieldError(fm, field) ==
    IF ~In(field, fm) THEN <<Msg("Missing required field", field, 0)>>
    ELSE IF ~Truthy(Get(fm, field)) THEN <<Msg("Field cannot be empty", field, 0)>>
    ELSE <<>>

\* lines 60-64, the loop
RECURSIVE HookFieldErrors(_, _)
HookFieldErrors(fm, fields) ==
    IF fields = <<>> THEN <<>>
    ELSE HookFieldError(fm, Head(fields)) \o HookFieldErrors(fm, Tail(fields))

\* a faulty variant of HookDescTooShort: off by one
HookDescTooShort_OffByOne(desc) == desc.n <= HOOK_MIN_DESC

\* line 69
HookDescTooShort(desc) == desc.n < HOOK_MIN_DESC

\* line 77
ForbiddenExists(dirFiles, forbidden) == forbidden \in dirFiles

\* a faulty variant of HookForbiddenErrors: the loop stops at the first forbidden file
RECURSIVE HookForbiddenErrors_FirstOnly(_, _)
HookForbiddenErrors_FirstOnly(dirFiles, names) ==
    IF names = <<>> THEN <<>>
    ELSE IF ForbiddenExists(dirFiles, Head(names))
    THEN <<Msg("Forbidden file found", Head(names), 0)>>
    ELSE HookForbiddenErrors_FirstOnly(dirFiles, Tail(names))

\* lines 76-81
RECURSIVE HookForbiddenErrors(_, _)
HookForbiddenErrors(dirFiles, names) ==
    IF names = <<>> THEN <<>>
    ELSE (IF ForbiddenExists(dirFiles, Head(names))
          THEN <<Msg("Forbidden file found", Head(names), 0)>> ELSE <<>>)
         \o HookForbiddenErrors(dirFiles, Tail(names))

HookGoto(p) == hpc' = p /\ visited' = Append(visited, p)

\* an uncaught exception ends the process: traceback on stderr, exit code 1
HookCrash(exc) ==
    /\ out' = Append(out, Traceback(exc))
    /\ hexit' = 1
    /\ HookGoto("Terminated")

\* line 88: the process starts reading standard input
HookStart ==
    /\ hpc = "Idle"
    /\ HookGoto("ParsingInput")
    /\ UNCHANGED <<stdin, fs, vpc, herrors, hfm, out, hexit, reads, writes, called>>
    /\ UNCHANGED batchVars

\* lines 90-95: the except branch
HookParseFail ==
    /\ hpc = "ParsingInput"
    /\ ~ParseSucceeds(stdin)
    /\ out' = Append(out, ParseErrorOut(stdin))
    /\ hexit' = 2
    /\ HookGoto("Terminated")
    /\ UNCHANGED <<stdin, fs, vpc, herrors, hfm, reads, writes, called>>
    /\ UNCHANGED batchVars

\* lines 98, 19-26: validate_skill is entered
HookEnterValidate ==
    /\ hpc = "ParsingInput"
    /\ ParseSucceeds(stdin)
    /\ called' = TRUE
    /\ herrors' = <<>>
    /\ IF stdin.kind = "path_not_str"
       THEN HookCrash("TypeError") /\ UNCHANGED vpc
       ELSE IF ~IsSkillManifest(stdin.path)
       THEN HookGoto("Skipped") /\ UNCHANGED <<vpc, out, hexit>>
       ELSE HookGoto("Validating") /\ vpc' = "read" /\ UNCHANGED <<out, hexit>>
    /\ UNCHANGED <<stdin, fs, hfm, reads, writes>>
    /\ UNCHANGED batchVars

\* line 24: return []
HookSkipReturn ==
    /\ hpc = "Skipped"
    /\ HookGoto("Deciding")
    /\ UNCHANGED <<stdin, fs, vpc, herrors, hfm, out, hexit, reads, writes, called>>
    /\ UNCHANGED batchVars

\* lines 28-57
HookReadParse ==
    /\ hpc = "Validating" /\ vpc = "read"
    /\ reads' = reads \cup {stdin.path.base}
    /\ LET e == HookFrontmatterError(fs.file) IN
       IF e # ""
       THEN /\ herrors' = Append(herrors, Msg(e, "", 0))
            /\ HookGoto("Deciding")
            /\ UNCHANGED <<vpc, hfm>>
       ELSE /\ hfm' = HookFrontmatter(fs.file)
            /\ vpc' = "fields"
            /\ UNCHANGED <<hpc, visited, herrors>>
    /\ UNCHANGED <<stdin, fs, out, hexit, writes, called>>
    /\ UNCHANGED batchVars

\* lines 59-64
HookCheckFields ==
    /\ hpc = "Validating" /\ vpc = "fields"
    /\ herrors' = herrors \o HookFieldErrors(hfm, REQUIRED_FIELDS)
    /\ vpc' = "description"
    /\ UNCHANGED <<stdin, fs, hpc, hfm, out, hexit, reads, writes, called, visited>>
    /\ UNCHANGED batchVars

\* lines 66-73
HookCheckDescription ==
    /\ hpc = "Validating" /\ vpc = "description"
    /\ IF In("description", hfm) /\ ~HasLen(hfm.description)
       THEN HookCrash("TypeError") /\ UNCHANGED <<vpc, herrors>>
       ELSE /\ herrors' = IF In("description", hfm) /\ HookDescTooShort(hfm.description)
                          THEN Append(herrors, Msg("Description too short", "",
                                                   hfm.description.n))
                          ELSE herrors
            /\ vpc' = "forbidden"
            /\ UNCHANGED <<hpc, visited, out, hexit>>
    /\ UNCHANGED <<stdin, fs, hfm, reads, writes, called>>
    /\ UNCHANGED batchVars

\* lines 75-83
HookCheckForbidden ==
    /\ hpc = "Validating" /\ vpc = "forbidden"
    /\ reads' = reads \cup Range(FORBIDDEN_FILES)
    /\ herrors' = herrors \o HookForbiddenErrors(fs.dirFiles, FORBIDDEN_FILES)
    /\ HookGoto("Deciding")
    /\ UNCHANGED <<stdin, fs, vpc, hfm, out, hexit, writes, called>>
    /\ UNCHANGED batchVars

\* lines 100-121
HookDecide ==
    /\ hpc = "Deciding"
    /\ IF herrors # <<>>
       THEN out' = Append(out, BlockOut(stdin.path, herrors)) /\ hexit' = 2
       ELSE out' = Append(out, ContinueOut(stdin.path)) /\ hexit' = 0
    /\ HookGoto("Terminated")
    /\ UNCHANGED <<stdin, fs, vpc, herrors, hfm, reads, writes, called>>
    /\ UNCHANGED batchVars

HookNext ==
    \/ HookStart
    \/ HookParseFail
    \/ HookEnterValidate
    \/ HookSkipReturn
    \/ HookReadParse
    \/ HookCheckFields
    \/ HookCheckDescription
    \/ HookCheckForbidden
    \/ HookDecide

(***************************************************************************)
(* Inputs of the hook                                                      *)
(***************************************************************************)
LensAround(thresholds) == {0} \cup {t + d : t \in thresholds, d \in (0 - Slack)..Slack}

DescStr(n) == PyStr(IF n = 0 THEN "" ELSE "d", n)

NameVals == {PyAbsent, PyNone, PyStr("", 0), PyStr("foo", 3), PyStr("bar", 3)}

DescVals(thresholds) ==
    {PyAbsent, PyNone, PyInt(0), PyInt(5), PyList(0), PyList(2)}
    \cup {DescStr(n) : n \in LensAround(thresholds)}

\* what the text between the delimiters can parse to
NonMappings ==
    {YOutcome("err_mapping"), YOutcome("err_other"), YOutcome("exc"), YOutcome("none"),
     Yaml("str", 5, {}, PyAbsent, PyAbsent, PyAbsent),
     Yaml("list", 2, {}, PyAbsent, PyAbsent, PyAbsent),
     Yaml("int", 5, {}, PyAbsent, PyAbsent, PyAbsent)}

HookMappings ==
    {YDict(nm, d, PyAbsent, FALSE) : nm \in NameVals \ {PyStr("bar", 3)},
                                     d \in DescVals({HOOK_MIN_DESC})}
    \cup {YDict(PyAbsent, PyAbsent, PyAbsent, TRUE)}

AManifest == YDict(PyStr("foo", 3), DescStr(HOOK_MIN_DESC), PyAbsent, FALSE)

\* texts without a complete frontmatter block
BrokenContents ==
    {<<>>, <<Body>>, <<Delim>>, <<Delim, Chunk(AManifest)>>,
     <<Body, Delim, Chunk(AManifest), Delim, Body>>}

HookContents ==
    BrokenContents
    \cup {<<Delim, Delim>>, <<Delim, Delim, Body>>,
          <<Delim, Chunk(AManifest), Delim, Body, Delim, Body>>}
    \cup {<<Delim, Chunk(y), Delim, Body>> : y \in NonMappings \cup HookMappings}

File(readable, content) == [readable |-> readable, content |-> content]

HookFiles == {File(FALSE, <<>>)} \cup {File(TRUE, c) : c \in HookContents}

HookPaths == {Path("skills/foo", b) : b \in {"SKILL.md", "README.md"}}

HookStdins ==
    {Stdin(k, Path("", "")) : k \in {"not_json", "not_object", "no_tool_input",
                                      "tool_input_not_object", "no_file_path",
                                      "path_not_str"}}
    \cup {Stdin("ok", p) : p \in HookPaths}

(***************************************************************************)
(* BATCH VALIDATOR: .github/scripts/validate-config.py                     *)
(***************************************************************************)
VALID_MODELS == {"opus", "sonnet", "haiku", "inherit"}
SKIP_DIRS    == {"references", "scripts", "assets"}

\* str(file_path) of a ValidationResult
FileId(kind, idx, name) == [kind |-> kind, idx |-> idx, name |-> name]

\* the ValidationResult every validator starts from
Result(file) == [file |-> file, valid |-> TRUE, errors |-> <<>>, warnings |-> <<>>]

\* a faulty variant of Fail: the error is appended and the flag forgotten
Fail_KeepsValid(r, m) == [r EXCEPT !.errors = Append(@, m)]

\* result["valid"] = False; result["errors"].append(m)
Fail(r, m) == [r EXCEPT !.valid = FALSE, !.errors = Append(@, m)]

\* result["errors"].append(m) alone (line 64)
AddError(r, m) == [r EXCEPT !.errors = Append(@, m)]

\* result["warnings"].append(m)
Warn(r, m) == [r EXCEPT !.warnings = Append(@, m)]

NoResult == Result(FileId("none", 0, ""))

\* how a step of a validator ends: an exception leaves it, it returns the
\* result, or it goes on with the result
Raise(exc)  == [exc |-> exc, done |-> FALSE, r |-> NoResult]
Return(r)   == [exc |-> "",  done |-> TRUE,  r |-> r]
Continue(r) == [exc |-> "",  done |-> FALSE, r |-> r]

\* an entry of the repository as main() meets it
NoFile ==
    [kind |-> "none", idx |-> 0, name |-> "", is_dir |-> FALSE, has_manifest |-> FALSE,
     readable |-> FALSE, content |-> <<>>, scripts_dir |-> FALSE, scripts |-> <<>>,
     schema |-> "", target |-> ""]

\* schema: "absent", "empty" (the schema {}), "ok"; schema documents are taken
\*         to be well-formed JSON Schema
\* target: "unread", "absent", "undecodable", "not_json", "valid", "violates"
\*         (violation at the root), "violates_at" (violation with a path)
JsonEntry(kind, schema, target) ==
    [NoFile EXCEPT !.kind = kind, !.schema = schema, !.target = target]

AgentEntry(name, readable, content) ==
    [NoFile EXCEPT !.kind = "agent", !.name = name, !.readable = readable,
                   !.content = content]

SkillEntry(name, is_dir, has_manifest, readable, content, scripts_dir, scripts) ==
    [NoFile EXCEPT !.kind = "skill", !.name = name, !.is_dir = is_dir,
                   !.has_manifest = has_manifest, !.readable = readable,
                   !.content = content, !.scripts_dir = scripts_dir, !.scripts = scripts]

\* state: "ok", "syntax_error", "no_shebang", "undecodable"
Script(name, is_file, suffix, state) ==
    [name |-> name, is_file |-> is_file, suffix |-> suffix, state |-> state]

\* a reference in the body: shape "link" or "code"; target "http", "https",
\* "anchor", "rel", or "long" for a relative path with a component longer
\* than the file system's name limit, on which Path.exists raises OSError
\* (ENAMETOOLONG); exists: skill_dir / path exists
Ref(shape, target, path, exists) ==
    [shape |-> shape, target |-> target, path |-> path, exists |-> exists]

\* lines 33-36 and the test `if settings_schema:` of lines 242, 250: the
\* schema is loaded and truthy
SchemaLoaded(schema) == schema = "ok"

\* a faulty variant of ValidateJsonFile: an absent target is an error
ValidateJsonFile_AbsentFails(file, target) ==
    LET r == Result(file) IN
    IF target = "absent" THEN Return(Fail(r, Msg("File not found", file.name, 0)))
    ELSE IF target = "undecodable" THEN Raise("UnicodeDecodeError")
    ELSE IF target = "not_json" THEN Return(Fail(r, Msg("Invalid JSON", "", 0)))
    ELSE IF target = "violates" THEN Return(Fail(r, Msg("Schema validation", "", 0)))
    ELSE IF target = "violates_at"
    THEN Return(AddError(Fail(r, Msg("Schema validation", "", 0)), Msg("  at", "", 0)))
    ELSE Return(r)

\* lines 39-66
ValidateJsonFile(file, target) ==
    LET r == Result(file) IN
    IF target = "absent" THEN Return(Warn(r, Msg("File not found", file.name, 0)))
    ELSE IF target = "undecodable" THEN Raise("UnicodeDecodeError")
    ELSE IF target = "not_json" THEN Return(Fail(r, Msg("Invalid JSON", "", 0)))
    ELSE IF target = "violates" THEN Return(Fail(r, Msg("Schema validation", "", 0)))
    ELSE IF target = "violates_at"
    THEN Return(AddError(Fail(r, Msg("Schema validation", "", 0)), Msg("  at", "", 0)))
    ELSE Return(r)

\* lines 69-90: [fm, error, exc]
ExtractFrontmatter(content) ==
    LET none == YOutcome("none") IN
    IF ~StartsWithDelim(content)
    THEN [fm |-> none, error |-> "Missing YAML frontmatter (must start with ---)", exc |-> ""]
    ELSE LET parts == Split2(content) IN
         IF Len(parts) < 3
         THEN [fm |-> none, error |-> "Invalid frontmatter format (missing closing ---)",
               exc |-> ""]
         ELSE LET y == YamlLoad(parts[2]) IN
              CASE y.t = "err_mapping" ->
                     [fm |-> none, error |-> "Invalid YAML: Colon in value breaks parsing",
                      exc |-> ""]
                [] y.t = "err_other" -> [fm |-> none, error |-> "Invalid YAML", exc |-> ""]
                [] y.t = "exc"       -> [fm |-> none, error |-> "", exc |-> "ValueError"]
                [] OTHER             -> [fm |-> y, error |-> "", exc |-> ""]

\* bool(fm) of what safe_load returned
TopTruthy(y) ==
    CASE y.t = "dict"            -> y.keys # {}
      [] y.t \in {"str", "list"} -> y.n > 0
      [] y.t = "int"             -> y.n # 0
      [] OTHER                   -> FALSE

\* `key in fm` is defined (an int is not iterable)
HasIn(fm) == fm.t \in {"dict", "str", "list"}

\* lines 101-112
AgentExtractStep(r, f) ==
    IF ~f.readable THEN Raise("UnicodeDecodeError")
    ELSE LET x == ExtractFrontmatter(f.content) IN
         IF x.exc # "" THEN Raise(x.exc)
         ELSE IF x.error # "" THEN Return(Fail(r, Msg(x.error, "", 0)))
         ELSE IF ~TopTruthy(x.fm) THEN Return(Fail(r, Msg("Empty frontmatter", "", 0)))
         ELSE Continue(r)

\* a faulty variant of DescriptionStep: a description of the threshold's
\* length is short too
DescriptionStep_OffByOne(r, fm, threshold) ==
    IF ~In("description", fm)
    THEN Continue(Fail(r, Msg("Missing required field", "description", 0)))
    ELSE IF fm.t # "dict" THEN Raise("AttributeError")
    ELSE IF ~HasLen(fm.description) THEN Raise("TypeError")
    ELSE IF fm.description.n <= threshold
    THEN Continue(Warn(r, Msg("Description is very short", "", threshold)))
    ELSE Continue(r)

\* lines 119-123 and 169-173: the description check against a threshold
DescriptionStep(r, fm, threshold) ==
    IF ~In("description", fm)
    THEN Continue(Fail(r, Msg("Missing required field", "description", 0)))
    ELSE IF fm.t # "dict" THEN Raise("AttributeError")
    ELSE IF ~HasLen(fm.description) THEN Raise("TypeError")
    ELSE IF fm.description.n < threshold
    THEN Continue(Warn(r, Msg("Description is very short", "", threshold)))
    ELSE Continue(r)

\* lines 114-123
AgentFieldsStep(r, fm) ==
    IF ~HasIn(fm) THEN Raise("TypeError")
    ELSE DescriptionStep(IF ~In("name", fm)
                         THEN Fail(r, Msg("Missing required field", "name", 0))
                         ELSE r,
                         fm, AGENT_MIN_DESC)

\* a faulty variant of AgentModelStep: an unknown model is an error
AgentModelStep_AsError(r, fm) ==
    IF ~In("model", fm) THEN Return(r)
    ELSE IF fm.t # "dict" THEN Raise("TypeError")
    ELSE IF fm.model.t = "str" /\ fm.model.s \in VALID_MODELS THEN Return(r)
    ELSE Return(Fail(r, Msg("Unknown model", fm.model.s, 0)))

\* lines 125-130
AgentModelStep(r, fm) ==
    IF ~In("model", fm) THEN Return(r)
    ELSE IF fm.t # "dict" THEN Raise("TypeError")
    ELSE IF fm.model.t = "str" /\ fm.model.s \in VALID_MODELS THEN Return(r)
    ELSE Return(Warn(r, Msg("Unknown model", fm.model.s, 0)))

\* lines 142-158
SkillManifestStep(r, f) ==
    IF ~f.has_manifest THEN Return(Fail(r, Msg("Missing SKILL.md", "", 0)))
    ELSE IF ~f.readable THEN Raise("UnicodeDecodeError")
    ELSE LET x == ExtractFrontmatter(f.content) IN
         IF x.exc # "" THEN Raise(x.exc)
         ELSE IF x.error # "" THEN Return(Fail(r, Msg(x.error, "", 0)))
         ELSE IF ~TopTruthy(x.fm) THEN Return(Fail(r, Msg("Empty frontmatter", "", 0)))
         ELSE Continue(r)

\* a faulty variant of SkillFieldsStep: a name that differs from the
\* directory's is an error
SkillFieldsStep_MismatchFails(r, fm, dirname) ==
    IF ~HasIn(fm) THEN Raise("TypeError")
    ELSE IF ~In("name", fm)
    THEN DescriptionStep(Fail(r, Msg("Missing required field", "name", 0)), fm,
                         SKILL_MIN_DESC)
    ELSE IF fm.t # "dict" THEN Raise("TypeError")
    ELSE IF ~(fm.name.t = "str" /\ fm.name.s = dirname)
    THEN DescriptionStep(Fail(r, Msg2("name doesn't match directory", fm.name.s, dirname)),
                         fm, SKILL_MIN_DESC)
    ELSE DescriptionStep(r, fm, SKILL_MIN_DESC)

\* lines 160-173
SkillFieldsStep(r, fm, dirname) ==
    IF ~HasIn(fm) THEN Raise("TypeError")
    ELSE IF ~In("name", fm)
    THEN DescriptionStep(Fail(r, Msg("Missing required field", "name", 0)), fm,
                         SKILL_MIN_DESC)
    ELSE IF fm.t # "dict" THEN Raise("TypeError")
    ELSE IF ~(fm.name.t = "str" /\ fm.name.s = dirname)
    THEN DescriptionStep(Warn(r, Msg2("name doesn't match directory", fm.name.s, dirname)),
                         fm, SKILL_MIN_DESC)
    ELSE DescriptionStep(r, fm, SKILL_MIN_DESC)

\* line 176: content.split("---", 2)[2]
BodyOf(content) == Split2(content)[3]

RECURSIVE RefsOf(_)
RefsOf(body) == IF body = <<>> THEN <<>> ELSE Head(body).refs \o RefsOf(Tail(body))

\* line 196
IgnoredTarget(ref) == ref.target \in {"http", "https", "anchor"}

\* lines 194-200 (kind "Referenced file not found", over the links) and
\* lines 202-206 (kind "Referenced path not found", over the code spans)
RECURSIVE RefWarnings(_, _, _)
RefWarnings(r, refs, kind) ==
    IF refs = <<>> THEN r
    ELSE LET ref == Head(refs) IN
         RefWarnings(IF (ref.shape = "link" /\ IgnoredTarget(ref)) \/ ref.exists
                     THEN r ELSE Warn(r, Msg(kind, ref.path, 0)),
                     Tail(refs), kind)

\* lines 183-206; full_path.exists() of lines 199 and 205 is not guarded
CheckSkillReferences(dirname, body, r) ==
    IF dirname = "skill-creator" THEN Continue(r)
    ELSE LET refs == RefsOf(body) IN
         IF \E i \in 1..Len(refs) :
                /\ refs[i].target = "long"
                /\ ~(refs[i].shape = "link" /\ IgnoredTarget(refs[i]))
         THEN Raise("OSError")
         ELSE Continue(RefWarnings(RefWarnings(r, SelectSeq(refs, LAMBDA x : x.shape = "link"),
                                               "Referenced file not found"),
                                   SelectSeq(refs, LAMBDA x : x.shape = "code"),
                                   "Referenced path not found"))

\* a faulty variant of LintScripts: the loop ends at the first syntax error
LintScripts_StopAtError(r, scripts) ==
    LET first == {i \in 1..Len(scripts) : scripts[i].is_file /\ scripts[i].suffix = ".py"
                                           /\ scripts[i].state = "syntax_error"} IN
    IF first = {} THEN Return(r)
    ELSE Return(Fail(r, Msg("Python syntax error in", scripts[Min(first)].name, 0)))

\* lines 215-230, over the scripts in iterdir order
RECURSIVE LintScripts(_, _)
LintScripts(r, scripts) ==
    IF scripts = <<>> THEN Return(r)
    ELSE LET sc == Head(scripts) IN
         IF ~sc.is_file \/ sc.suffix \notin {".py", ".sh"} THEN LintScripts(r, Tail(scripts))
         ELSE IF sc.state = "undecodable" THEN Raise("UnicodeDecodeError")
         ELSE IF sc.suffix = ".py" /\ sc.state = "syntax_error"
         THEN LintScripts(Fail(r, Msg("Python syntax error in", sc.name, 0)), Tail(scripts))
         ELSE IF sc.suffix = ".sh" /\ sc.state = "no_shebang"
         THEN LintScripts(Warn(r, Msg("Shell script missing shebang", sc.name, 0)),
                          Tail(scripts))
         ELSE LintScripts(r, Tail(scripts))

\* lines 209-230
CheckSkillScripts(f, r) == IF ~f.scripts_dir THEN Return(r) ELSE LintScripts(r, f.scripts)

\* what print_results and generate_github_output list: each message with its file
Tag(file, msgs) == [i \in 1..Len(msgs) |-> [file |-> file, msg |-> msgs[i]]]

\* lines 310-317
RECURSIVE AllErrors(_)
AllErrors(rs) ==
    IF rs = <<>> THEN <<>> ELSE Tag(Head(rs).file, Head(rs).errors) \o AllErrors(Tail(rs))

RECURSIVE AllWarnings(_)
AllWarnings(rs) ==
    IF rs = <<>> THEN <<>> ELSE Tag(Head(rs).file, Head(rs).warnings) \o AllWarnings(Tail(rs))

OutLine(key, n, s) ==
    [key |-> key, n |-> n, s |-> s, file |-> FileId("none", 0, ""), msg |-> Msg("", "", 0)]

Bullets(tagged) ==
    [i \in 1..Len(tagged) |->
        [key |-> "- ", n |-> 0, s |-> "", file |-> tagged[i].file, msg |-> tagged[i].msg]]

\* lines 325-334
SummaryLines(errors, warnings) ==
    (IF errors # <<>> THEN <<OutLine("### Errors", 0, "")>> \o Bullets(errors) ELSE <<>>)
    \o (IF warnings # <<>>
        THEN <<OutLine("", 0, ""), OutLine("### Warnings", 0, "")>> \o Bullets(warnings)
        ELSE <<>>)
    \o (IF errors = <<>> /\ warnings = <<>>
        THEN <<OutLine("All configuration files are valid!", 0, "")>> ELSE <<>>)

\* lines 307-340: the lines appended to $GITHUB_OUTPUT
GithubOutput(rs) ==
    LET errors   == AllErrors(rs)
        warnings == AllWarnings(rs) IN
    <<OutLine("error_count", Len(errors), ""),
      OutLine("warning_count", Len(warnings), ""),
      OutLine("has_errors", 0, IF errors # <<>> THEN "true" ELSE "false"),
      OutLine("summary<<EOF", 0, "")>>
    \o SummaryLines(errors, warnings)
    \o <<OutLine("EOF", 0, "")>>

\* lines 293-301, one result
ResultLines(r) ==
    <<[key |-> IF r.valid THEN "ok" ELSE "failed", n |-> 0, s |-> "", file |-> r.file,
       msg |-> Msg("", "", 0)]>>
    \o [i \in 1..Len(r.errors) |->
           [key |-> "error", n |-> 0, s |-> "", file |-> r.file, msg |-> r.errors[i]]]
    \o [i \in 1..Len(r.warnings) |->
           [key |-> "warning", n |-> 0, s |-> "", file |-> r.file, msg |-> r.warnings[i]]]

RECURSIVE ReportLines(_)
ReportLines(rs) == IF rs = <<>> THEN <<>> ELSE ResultLines(Head(rs)) \o ReportLines(Tail(rs))

\* lines 292-304
PrintResults(rs) ==
    [printed     |-> TRUE,
     lines       |-> ReportLines(rs),
     valid_count |-> Cardinality({i \in 1..Len(rs) : rs[i].valid}),
     total       |-> Len(rs)]

NoReport == [printed |-> FALSE, lines |-> <<>>, valid_count |-> 0, total |-> 0]

(***************************************************************************)
(* Inputs of the batch run                                                 *)
(***************************************************************************)
Doc(y, body) == <<Delim, Chunk(y), Delim, body>>

AgentMapping(nm, d, m) == YDict(nm, d, m, FALSE)

\* agent files: a skipped README-style file, an undecodable file, documents
\* without frontmatter, with an empty one, and mappings
BatchAgentFiles ==
    {AgentEntry("AGENTS-README.md", TRUE, <<Body>>),
     AgentEntry("reviewer.md", FALSE, <<>>),
     AgentEntry("reviewer.md", TRUE, <<Body>>),
     AgentEntry("reviewer.md", TRUE, <<Delim, Delim, Body>>)}
    \cup {AgentEntry("reviewer.md", TRUE, Doc(y, Body)) :
            y \in {AgentMapping(PyStr("reviewer", 8), DescStr(AGENT_MIN_DESC), PyAbsent),
                   AgentMapping(PyStr("reviewer", 8), DescStr(AGENT_MIN_DESC - Slack),
                                PyStr("gpt", 3)),
                   AgentMapping(PyAbsent, DescStr(AGENT_MIN_DESC), PyStr("opus", 4)),
                   AgentMapping(PyStr("reviewer", 8), PyNone, PyAbsent)}}

SkillDoc(nm, d, refs) == Doc(YDict(nm, d, PyAbsent, FALSE), BodyWith(refs))

DanglingRefs ==
    <<Ref("link", "https", "https://example.com", FALSE),
      Ref("link", "rel", "references/guide.md", FALSE),
      Ref("code", "rel", "scripts/run.py", FALSE)>>

\* entries of skills/: a plain file, a shared directory, a directory without
\* manifest, and skills with clean, warned, failing and undecodable parts
BatchSkillEntries ==
    {SkillEntry("notes.txt", FALSE, FALSE, FALSE, <<>>, FALSE, <<>>),
     SkillEntry("references", TRUE, FALSE, FALSE, <<>>, FALSE, <<>>),
     SkillEntry("foo", TRUE, FALSE, FALSE, <<>>, FALSE, <<>>),
     SkillEntry("foo", TRUE, TRUE, TRUE,
                SkillDoc(PyStr("foo", 3), DescStr(SKILL_MIN_DESC), <<>>), FALSE, <<>>),
     SkillEntry("foo", TRUE, TRUE, TRUE,
                SkillDoc(PyStr("bar", 3), DescStr(SKILL_MIN_DESC - Slack), DanglingRefs), TRUE,
                <<Script("run.sh", TRUE, ".sh", "no_shebang"),
                  Script("lib", FALSE, "", "ok")>>),
     SkillEntry("foo", TRUE, TRUE, TRUE,
                SkillDoc(PyStr("foo", 3), DescStr(SKILL_MIN_DESC - Slack), <<>>), TRUE,
                <<Script("bad.py", TRUE, ".py", "syntax_error"),
                  Script("run.sh", TRUE, ".sh", "ok")>>),
     SkillEntry("foo", TRUE, TRUE, TRUE,
                SkillDoc(PyStr("foo", 3), DescStr(SKILL_MIN_DESC), <<>>), TRUE,
                <<Script("data.py", TRUE, ".py", "undecodable")>>),
     SkillEntry("foo", TRUE, TRUE, TRUE,
                SkillDoc(PyStr("foo", 3), PyInt(5), <<>>), FALSE, <<>>),
     SkillEntry("skill-creator", TRUE, TRUE, TRUE,
                SkillDoc(PyStr("skill-creator", 13), DescStr(SKILL_MIN_DESC), DanglingRefs),
                FALSE, <<>>)}

(***************************************************************************)
(* Inputs of one validate_agent call and of one validate_skill call        *)
(***************************************************************************)
AgentNames == {PyAbsent, PyNone, PyStr("reviewer", 8)}

ModelVals ==
    {PyAbsent, PyNone, PyInt(5), PyStr("gpt", 3), PyStr("Opus", 4)}
    \cup {PyStr("opus", 4), PyStr("sonnet", 6), PyStr("haiku", 5), PyStr("inherit", 7)}

\* what the frontmatter block of a batch document can parse to when it is no
\* mapping: errors, None, falsy and truthy scalars and sequences; keys are the
\* names the operator `in` finds in a string or a list
BatchNonMappings ==
    NonMappings
    \cup {Yaml("str", 0, {}, PyAbsent, PyAbsent, PyAbsent),
          Yaml("list", 0, {}, PyAbsent, PyAbsent, PyAbsent),
          Yaml("int", 0, {}, PyAbsent, PyAbsent, PyAbsent),
          Yaml("str", 9, {"name"}, PyAbsent, PyAbsent, PyAbsent),
          Yaml("str", 16, {"name", "description"}, PyAbsent, PyAbsent, PyAbsent),
          Yaml("list", 2, {"description"}, PyAbsent, PyAbsent, PyAbsent),
          Yaml("list", 3, {"name", "model"}, PyAbsent, PyAbsent, PyAbsent)}

\* the mapping {} and a mapping with neither name nor description nor model
OtherMappings ==
    {YDict(PyAbsent, PyAbsent, PyAbsent, FALSE), YDict(PyAbsent, PyAbsent, PyAbsent, TRUE)}

AgentYamls ==
    BatchNonMappings \cup OtherMappings
    \cup {AgentMapping(nm, d, m) : nm \in AgentNames, d \in DescVals({AGENT_MIN_DESC}),
                                   m \in ModelVals}

\* the texts of a document: without frontmatter, with an open block that is
\* never closed, and with a closed block parsing to y
DocContents(ys, bodies) ==
    {<<>>, <<Body>>, <<Body, Delim, Chunk(YDict(PyAbsent, PyAbsent, PyAbsent, TRUE)), Delim>>}
    \cup {<<Delim>>, <<Delim, Chunk(YDict(PyAbsent, PyAbsent, PyAbsent, TRUE))>>}
    \cup {<<Delim, Delim>>}
    \cup {Doc(y, b) : y \in ys, b \in bodies}

AgentDocs ==
    {AgentEntry("reviewer.md", FALSE, <<>>)}
    \cup {AgentEntry("reviewer.md", TRUE, c) : c \in DocContents(AgentYamls, {Body})}

SkillNames == {PyAbsent, PyNone, PyInt(5), PyStr("foo", 3), PyStr("bar", 3)}

SkillYamls ==
    BatchNonMappings \cup OtherMappings
    \cup {YDict(nm, d, PyAbsent, FALSE) : nm \in SkillNames, d \in DescVals({SKILL_MIN_DESC})}

\* references of a body: none, dangling ones, and a mix with resolving ones
\* and with the same dangling target met twice
MixedRefs ==
    <<Ref("link", "rel", "references/guide.md", TRUE),
      Ref("link", "anchor", "#usage", FALSE),
      Ref("link", "rel", "missing.md", FALSE),
      Ref("code", "rel", "scripts/run.py", TRUE),
      Ref("link", "http", "http://example.com", FALSE),
      Ref("code", "rel", "assets/logo.png", FALSE),
      Ref("link", "rel", "missing.md", FALSE)>>

\* the last body links to a target no file name can hold
SkillBodies ==
    {Body, BodyWith(DanglingRefs), BodyWith(MixedRefs),
     BodyWith(<<Ref("link", "rel", "missing.md", FALSE),
                Ref("link", "long", "data:image/png;base64", FALSE)>>)}

BadPy == Script("bad.py", TRUE, ".py", "syntax_error")

\* what scripts/ holds, in iterdir order
ScriptLists ==
    {<<>>,
     <<BadPy>>,
     <<Script("run.sh", TRUE, ".sh", "no_shebang"), BadPy,
       Script("lib", FALSE, "", "ok"), Script("ok.py", TRUE, ".py", "ok"),
       Script("worse.py", TRUE, ".py", "syntax_error")>>,
     <<Script("run.sh", TRUE, ".sh", "no_shebang"), Script("notes.txt", TRUE, ".txt", "ok")>>,
     <<BadPy, Script("data.py", TRUE, ".py", "undecodable")>>,
     <<Script("ok.sh", TRUE, ".sh", "ok"), Script("tools.sh", FALSE, ".sh", "no_shebang"),
       Script("logo.png", TRUE, ".png", "undecodable"),
       Script("run.sh", TRUE, ".sh", "no_shebang"), Script("more.sh", TRUE, ".sh", "no_shebang")>>,
     <<Script("run.sh", TRUE, ".sh", "no_shebang"), Script("legacy.sh", TRUE, ".sh", "undecodable")>>}

SkillDirs ==
    {SkillEntry("foo", TRUE, FALSE, FALSE, <<>>, TRUE, <<BadPy>>),
     SkillEntry("foo", TRUE, TRUE, FALSE, <<>>, TRUE, <<BadPy>>)}
    \cup {SkillEntry("foo", TRUE, TRUE, TRUE, c, sl # <<>>, sl) :
            c \in DocContents(SkillYamls, SkillBodies), sl \in ScriptLists}
    \cup {SkillEntry("skill-creator", TRUE, TRUE, TRUE,
                     Doc(YDict(PyStr("skill-creator", 13), DescStr(SKILL_MIN_DESC), PyAbsent,
                               FALSE), b), sd, <<>>) :
            b \in SkillBodies, sd \in BOOLEAN}

(***************************************************************************)
(* validate_agent and validate_skill as functions of the file              *)
(***************************************************************************)
\* a step's outcome ends the validation: it raised or returned
Ended(o) == o.exc # "" \/ o.done

\* lines 93-130
ValidateAgent(f) ==
    LET fm == ExtractFrontmatter(f.content).fm
        a  == AgentExtractStep(Result(FileId("agent", f.idx, f.name)), f) IN
    IF Ended(a) THEN a
    ELSE LET b == AgentFieldsStep(a.r, fm) IN
         IF Ended(b) THEN b ELSE AgentModelStep(b.r, fm)

\* lines 133-180
ValidateSkill(f) ==
    LET fm == ExtractFrontmatter(f.content).fm
        a  == SkillManifestStep(Result(FileId("skill", f.idx, f.name)), f) IN
    IF Ended(a) THEN a
    ELSE LET b == SkillFieldsStep(a.r, fm, f.name) IN
         IF Ended(b) THEN b
         ELSE LET c == CheckSkillReferences(f.name, BodyOf(f.content), b.r) IN
              IF Ended(c) THEN c ELSE CheckSkillScripts(f, c.r)

(***************************************************************************)
(* main(), lines 233-289                                                   *)
(***************************************************************************)
\* an exception nobody catches ends the process: traceback, exit code 1
BatchCrash ==
    /\ bpc' = "crashed" /\ bexit' = 1
    /\ fpc' = "none" /\ cur' = NoResult
    /\ UNCHANGED <<results, has_errors>>

\* a faulty variant of BatchAppend: the flag follows the result appended last
BatchAppend_LastWins(r) ==
    /\ results' = Append(results, r)
    /\ has_errors' = ~r.valid
    /\ fpc' = "none" /\ cur' = NoResult

\* results.append(result); if not result["valid"]: has_errors = True
BatchAppend(r) ==
    /\ results' = Append(results, r)
    /\ has_errors' = (has_errors \/ ~r.valid)
    /\ fpc' = "none" /\ cur' = NoResult

\* a step of validate_agent / validate_skill ended with outcome o; curFile is
\* the file being validated, the one whose validation raised, or the one
\* whose result was appended last
BatchApply(o, next) ==
    IF o.exc # "" THEN BatchCrash /\ UNCHANGED curFile
    ELSE IF o.done THEN BatchAppend(o.r) /\ UNCHANGED <<bpc, bexit, curFile>>
    ELSE /\ cur' = o.r /\ fpc' = next
         /\ UNCHANGED <<results, has_errors, bpc, bexit, curFile>>

\* a schema file and its target file in the repository
JsonIn(schema, target) == [schema |-> schema, target |-> target]

\* the states of a schema file and of its target: the target of a schema
\* that is not loaded is never looked at
JsonInputs ==
    {JsonIn(sc, t) : sc \in {"absent", "empty"}, t \in {"absent", "not_json"}}
    \cup {JsonIn("ok", t) : t \in {"absent", "undecodable", "not_json", "valid", "violates",
                                    "violates_at"}}

\* a repository without schemas and without output channel
NoTree ==
    [github_output |-> FALSE, settings |-> JsonIn("absent", "absent"),
     mcp |-> JsonIn("absent", "absent")]

\* lines 241-246 and 249-254
JsonStage(kind, name, next) ==
    /\ fpc = "none"
    /\ LET in == IF kind = "settings" THEN tree.settings ELSE tree.mcp IN
       IF ~SchemaLoaded(in.schema)
       THEN /\ curFile' = JsonEntry(kind, in.schema, "unread")
            /\ bpc' = next
            /\ UNCHANGED <<results, has_errors, bexit, cur, fpc>>
       ELSE LET o == ValidateJsonFile(FileId(kind, 0, name), in.target) IN
            /\ curFile' = JsonEntry(kind, in.schema, in.target)
            /\ IF o.exc # "" THEN BatchCrash
               ELSE BatchAppend(o.r) /\ bpc' = next /\ UNCHANGED bexit
    /\ UNCHANGED <<tree, nAgents, nSkills, report, ghout>>
    /\ UNCHANGED hookVars

BatchSettings == bpc = "settings" /\ JsonStage("settings", "settings.json", "mcp")

BatchMcp == bpc = "mcp" /\ JsonStage("mcp", ".mcp.json", "agents")

\* lines 259-262: the loop meets the file f, whose path is told apart by idx
VisitAgent(f, idx) ==
    /\ IF f.name = "AGENTS-README.md"
       THEN curFile' = NoFile /\ UNCHANGED <<cur, fpc>>
       ELSE /\ curFile' = [f EXCEPT !.idx = idx]
            /\ cur' = Result(FileId("agent", idx, f.name))
            /\ fpc' = "extract"
    /\ nAgents' = nAgents + 1
    /\ UNCHANGED <<tree, bpc, results, has_errors, bexit, nSkills, report, ghout>>
    /\ UNCHANGED hookVars

\* lines 257-265: the next file of agents_dir.glob("*.md")
BatchNextAgent ==
    /\ bpc = "agents" /\ fpc = "none"
    /\ nAgents + nSkills < MaxFiles
    /\ \E f \in BatchAgentFiles : VisitAgent(f, nAgents + 1)

\* validate_agent, lines 94-112
AgentExtract ==
    /\ bpc = "agents" /\ fpc = "extract"
    /\ BatchApply(AgentExtractStep(cur, curFile), "fields")
    /\ UNCHANGED <<tree, nAgents, nSkills, report, ghout>>
    /\ UNCHANGED hookVars

\* validate_agent, lines 114-123
AgentFields ==
    /\ bpc = "agents" /\ fpc = "fields"
    /\ BatchApply(AgentFieldsStep(cur, ExtractFrontmatter(curFile.content).fm), "model")
    /\ UNCHANGED <<tree, nAgents, nSkills, report, ghout>>
    /\ UNCHANGED hookVars

\* validate_agent, lines 125-130, and lines 263-265 of main
AgentModel ==
    /\ bpc = "agents" /\ fpc = "model"
    /\ BatchApply(AgentModelStep(cur, ExtractFrontmatter(curFile.content).fm), "none")
    /\ UNCHANGED <<tree, nAgents, nSkills, report, ghout>>
    /\ UNCHANGED hookVars

\* line 258 is false, or the glob is exhausted
BatchAgentsDone ==
    /\ bpc = "agents" /\ fpc = "none"
    /\ bpc' = "skills"
    /\ UNCHANGED <<tree, results, has_errors, bexit, nAgents, nSkills, cur, curFile, fpc,
                   report, ghout>>
    /\ UNCHANGED hookVars

\* lines 272-277: the loop meets the entry f, whose path is told apart by idx
VisitSkill(f, idx) ==
    /\ IF ~f.is_dir \/ f.name \in SKIP_DIRS
       THEN curFile' = NoFile /\ UNCHANGED <<cur, fpc>>
       ELSE /\ curFile' = [f EXCEPT !.idx = idx]
            /\ cur' = Result(FileId("skill", idx, f.name))
            /\ fpc' = "manifest"
    /\ nSkills' = nSkills + 1
    /\ UNCHANGED <<tree, bpc, results, has_errors, bexit, nAgents, report, ghout>>
    /\ UNCHANGED hookVars

\* lines 272-277: the next entry of skills_dir.iterdir()
BatchNextSkill ==
    /\ bpc = "skills" /\ fpc = "none"
    /\ nAgents + nSkills < MaxFiles
    /\ \E f \in BatchSkillEntries : VisitSkill(f, nSkills + 1)

\* validate_skill, lines 134-158
SkillManifest ==
    /\ bpc = "skills" /\ fpc = "manifest"
    /\ BatchApply(SkillManifestStep(cur, curFile), "fields")
    /\ UNCHANGED <<tree, nAgents, nSkills, report, ghout>>
    /\ UNCHANGED hookVars

\* validate_skill, lines 160-173
SkillFields ==
    /\ bpc = "skills" /\ fpc = "fields"
    /\ BatchApply(SkillFieldsStep(cur, ExtractFrontmatter(curFile.content).fm, curFile.name),
                  "references")
    /\ UNCHANGED <<tree, nAgents, nSkills, report, ghout>>
    /\ UNCHANGED hookVars

\* validate_skill, lines 175-177
SkillReferences ==
    /\ bpc = "skills" /\ fpc = "references"
    /\ BatchApply(CheckSkillReferences(curFile.name, BodyOf(curFile.content), cur), "scripts")
    /\ UNCHANGED <<tree, nAgents, nSkills, report, ghout>>
    /\ UNCHANGED hookVars

\* validate_skill, lines 178-180, and lines 278-280 of main
SkillScripts ==
    /\ bpc = "skills" /\ fpc = "scripts"
    /\ BatchApply(CheckSkillScripts(curFile, cur), "none")
    /\ UNCHANGED <<tree, nAgents, nSkills, report, ghout>>
    /\ UNCHANGED hookVars

\* line 271 is false, or iterdir is exhausted; line 283: print_results
BatchReport ==
    /\ bpc = "skills" /\ fpc = "none"
    /\ report' = PrintResults(results)
    /\ bpc' = "output"
    /\ UNCHANGED <<tree, results, has_errors, bexit, nAgents, nSkills, cur, curFile, fpc,
                   ghout>>
    /\ UNCHANGED hookVars

\* lines 286-289
BatchExit ==
    /\ bpc = "output"
    /\ ghout' = IF tree.github_output THEN ghout \o GithubOutput(results) ELSE ghout
    /\ bexit' = IF has_errors THEN 1 ELSE 0
    /\ bpc' = "done"
    /\ UNCHANGED <<tree, results, has_errors, nAgents, nSkills, cur, curFile, fpc, report>>
    /\ UNCHANGED hookVars

BatchNext ==
    \/ BatchSettings
    \/ BatchMcp
    \/ BatchNextAgent
    \/ AgentExtract
    \/ AgentFields
    \/ AgentModel
    \/ BatchAgentsDone
    \/ BatchNextSkill
    \/ SkillManifest
    \/ SkillFields
    \/ SkillReferences
    \/ SkillScripts
    \/ BatchReport
    \/ BatchExit

BatchIdle ==
    /\ bpc = "settings"
    /\ results = <<>> /\ has_errors = FALSE /\ bexit = NoExit
    /\ nAgents = 0 /\ nSkills = 0
    /\ cur = NoResult /\ curFile = NoFile /\ fpc = "none"
    /\ report = NoReport

HookIdle ==
    /\ hpc = "Idle" /\ vpc = "none"
    /\ herrors = <<>> /\ hfm = YOutcome("none")
    /\ out = <<>> /\ hexit = NoExit
    /\ reads = {} /\ writes = {}
    /\ called = FALSE
    /\ visited = <<"Idle">>

(***************************************************************************)
(* Specifications                                                          *)
(***************************************************************************)
HookInit ==
    /\ stdin \in HookStdins
    /\ fs \in [file : HookFiles, dirFiles : SUBSET Range(FORBIDDEN_FILES)]
    /\ HookIdle
    /\ tree = NoTree /\ ghout = <<>>
    /\ BatchIdle

\* one invocation of the hook gate, over every input
SpecHook == HookInit /\ [][HookNext]_vars

BatchInit ==
    /\ tree \in [github_output : BOOLEAN, settings : JsonInputs, mcp : JsonInputs]
    /\ ghout \in {<<>>} \cup {<<OutLine("prior", 0, "")>> : x \in {y \in {TRUE} : tree.github_output}}
    /\ BatchIdle
    /\ stdin = Stdin("not_json", Path("", ""))
    /\ fs = [file |-> File(FALSE, <<>>), dirFiles |-> {}]
    /\ HookIdle

\* one run of the batch validator, over the files it may discover
SpecBatch == BatchInit /\ [][BatchNext]_vars

\* main() has met nothing but the file f, of kind k, and is about to validate it
FileInit(k, f, pc) ==
    /\ curFile = [f EXCEPT !.idx = 1]
    /\ cur = Result(FileId(k, 1, f.name))
    /\ fpc = pc
    /\ results = <<>> /\ has_errors = FALSE /\ bexit = NoExit
    /\ report = NoReport
    /\ tree = NoTree /\ ghout = <<>>
    /\ stdin = Stdin("not_json", Path("", ""))
    /\ fs = [file |-> File(FALSE, <<>>), dirFiles |-> {}]
    /\ HookIdle

ValidateInit ==
    \/ /\ bpc = "agents" /\ nAgents = 1 /\ nSkills = 0
       /\ \E f \in AgentDocs : FileInit("agent", f, "extract")
    \/ /\ bpc = "skills" /\ nAgents = 0 /\ nSkills = 1
       /\ \E f \in SkillDirs : FileInit("skill", f, "manifest")

ValidateNext ==
    \/ AgentExtract
    \/ AgentFields
    \/ AgentModel
    \/ SkillManifest
    \/ SkillFields
    \/ SkillReferences
    \/ SkillScripts

\* one call of validate_agent or of validate_skill by main(), over every
\* agent document and every skill directory
SpecValidate == ValidateInit /\ [][ValidateNext]_vars

\* the frontmatter blocks given to both skill validators: descriptions around
\* both thresholds, empty names and descriptions
SideYamls ==
    BatchNonMappings \cup OtherMappings
    \cup {YDict(nm, d, PyAbsent, FALSE) :
            nm \in NameVals \cup {PyInt(5)}, d \in DescVals({SKILL_MIN_DESC, HOOK_MIN_DESC})}

\* the skill directory foo in the states both validators are run on
SideDirs ==
    {SkillEntry("foo", TRUE, FALSE, FALSE, <<>>, FALSE, <<>>),
     SkillEntry("foo", TRUE, TRUE, FALSE, <<>>, FALSE, <<>>)}
    \cup {SkillEntry("foo", TRUE, TRUE, TRUE, c, sl # <<>>, sl) :
            c \in DocContents(SideYamls, {Body}),
            sl \in {<<>>, <<BadPy>>, <<Script("legacy.sh", TRUE, ".sh", "undecodable")>>}}
    \cup {SkillEntry("foo", TRUE, TRUE, TRUE, Doc(AManifest, b), FALSE, <<>>) :
            b \in SkillBodies}

\* the hook is started on skills/foo/SKILL.md and main() is about to call
\* validate_skill on skills/foo, in the same state of the directory
SideInit ==
    /\ \E f \in SideDirs, forbidden \in {{}, {"README.md"}} :
         /\ curFile = [f EXCEPT !.idx = 1]
         /\ fs = [file |-> File(f.has_manifest /\ f.readable, f.content),
                  dirFiles |-> forbidden]
    /\ cur = Result(FileId("skill", 1, "foo"))
    /\ bpc = "skills" /\ fpc = "manifest" /\ nAgents = 0 /\ nSkills = 1
    /\ results = <<>> /\ has_errors = FALSE /\ bexit = NoExit
    /\ report = NoReport
    /\ tree = NoTree /\ ghout = <<>>
    /\ stdin = Stdin("ok", Path("skills/foo", "SKILL.md"))
    /\ HookIdle

SideNext ==
    \/ HookStart
    \/ HookEnterValidate
    \/ HookReadParse
    \/ HookCheckFields
    \/ HookCheckDescription
    \/ HookCheckForbidden
    \/ HookDecide
    \/ SkillManifest
    \/ SkillFields
    \/ SkillReferences
    \/ SkillScripts

\* the hook gate and one validate_skill call of the batch validator, side by
\* side on the same skill directory
SpecSideBySide == SideInit /\ [][SideNext]_vars

(***************************************************************************)
(* main() over a file tree whose directories are enumerated in some order  *)
(***************************************************************************)
\* the entries a directory listing yields, at most
MaxListed == 2

\* the files of agents/: no two share a name
TreeAgents ==
    {AgentEntry("AGENTS-README.md", TRUE, <<Body>>),
     AgentEntry("broken.md", FALSE, <<>>),
     AgentEntry("plain.md", TRUE, <<Body>>),
     AgentEntry("terse.md", TRUE,
                Doc(AgentMapping(PyStr("terse", 5), DescStr(AGENT_MIN_DESC - Slack), PyAbsent),
                    Body)),
     AgentEntry("reviewer.md", TRUE,
                Doc(AgentMapping(PyStr("reviewer", 8), DescStr(AGENT_MIN_DESC), PyAbsent),
                    Body))}

\* the entries of skills/: no two share a name
TreeSkills ==
    {SkillEntry("notes.txt", FALSE, FALSE, FALSE, <<>>, FALSE, <<>>),
     SkillEntry("empty", TRUE, FALSE, FALSE, <<>>, FALSE, <<>>),
     SkillEntry("foo", TRUE, TRUE, TRUE,
                SkillDoc(PyStr("foo", 3), DescStr(SKILL_MIN_DESC), <<>>), FALSE, <<>>),
     SkillEntry("bar", TRUE, TRUE, TRUE,
                SkillDoc(PyStr("baz", 3), DescStr(SKILL_MIN_DESC - Slack), DanglingRefs), TRUE,
                <<BadPy>>),
     SkillEntry("legacy", TRUE, TRUE, TRUE,
                SkillDoc(PyStr("legacy", 6), DescStr(SKILL_MIN_DESC), <<>>), TRUE,
                <<Script("legacy.sh", TRUE, ".sh", "undecodable")>>)}

\* what glob() or iterdir() may yield over entries of pool: every entry once,
\* in an order the file system chooses
Listings(pool) ==
    {s \in UNION {[1..n -> pool] : n \in 0..MaxListed} :
        \A i, j \in 1..Len(s) : s[i].name = s[j].name => i = j}

\* lines 259-265: the next file of agents_dir.glob("*.md")
TreeNextAgent ==
    /\ bpc = "agents" /\ fpc = "none"
    /\ nAgents < Len(tree.agents)
    /\ VisitAgent(tree.agents[nAgents + 1], 0)

\* line 259: the glob is exhausted
TreeAgentsDone == nAgents = Len(tree.agents) /\ BatchAgentsDone

\* lines 272-280: the next entry of skills_dir.iterdir()
TreeNextSkill ==
    /\ bpc = "skills" /\ fpc = "none"
    /\ nSkills < Len(tree.skills)
    /\ VisitSkill(tree.skills[nSkills + 1], 0)

\* line 272: iterdir is exhausted; line 283: print_results
TreeReport == nSkills = Len(tree.skills) /\ BatchReport

OrderInit ==
    /\ tree \in [github_output : {TRUE},
                 settings : {JsonIn("ok", "valid"), JsonIn("ok", "violates")},
                 mcp : {JsonIn("absent", "absent")},
                 agents : Listings(TreeAgents), skills : Listings(TreeSkills)]
    /\ ghout = <<>>
    /\ BatchIdle
    /\ stdin = Stdin("not_json", Path("", ""))
    /\ fs = [file |-> File(FALSE, <<>>), dirFiles |-> {}]
    /\ HookIdle

OrderNext ==
    \/ BatchSettings
    \/ BatchMcp
    \/ TreeNextAgent
    \/ AgentExtract
    \/ AgentFields
    \/ AgentModel
    \/ TreeAgentsDone
    \/ TreeNextSkill
    \/ SkillManifest
    \/ SkillFields
    \/ SkillReferences
    \/ SkillScripts
    \/ TreeReport
    \/ BatchExit

\* one run of the batch validator over a fixed tree, for every order in which
\* its two directories may be enumerated
SpecOrder == OrderInit /\ [][OrderNext]_vars

(***************************************************************************)
(* CLAIMS ABOUT THE HOOK GATE (SpecHook)                                   *)
(***************************************************************************)
HookDone      == hpc = "Terminated"
ManifestWrite == stdin.kind = "ok" /\ stdin.path.base = "SKILL.md"
Forbidden(bullets) == SelectSeq(bullets, LAMBDA m : m.kind = "Forbidden file found")
OneDecision(stream, decision) ==
    /\ Len(out) = 1
    /\ out[1].kind = "decision" /\ out[1].stream = stream /\ out[1].decision = decision

HookRank(p) ==
    CASE p = "Idle"                       -> 1
      [] p = "ParsingInput"               -> 2
      [] p \in {"Validating", "Skipped"}  -> 3
      [] p = "Deciding"                   -> 4
      [] OTHER                            -> 5

\* C4: every invocation moves forward along Idle -> ParsingInput ->
\* (Validating | Skipped) -> Deciding -> Terminated (the parse-error exit of
\* ParsingInput goes straight to Terminated), can always take a step until it
\* is Terminated, has then emitted exactly one decision object, with exit code
\* 0 exactly for continue and 2 exactly for block, and takes no step after it.
C4_OneDecisionPerInvocation ==
    /\ visited[1] = "Idle" /\ visited[Len(visited)] = hpc
    /\ \A i \in 1..(Len(visited) - 1) : HookRank(visited[i]) < HookRank(visited[i + 1])
    /\ ~HookDone => out = <<>> /\ hexit = NoExit /\ ENABLED HookNext
    /\ HookDone =>
         /\ ~ENABLED HookNext
         /\ Len(out) = 1 /\ out[1].kind = "decision"
         /\ out[1].decision \in {"continue", "block"}
         /\ hexit = 0 <=> out[1].decision = "continue"
         /\ hexit = 2 <=> out[1].decision = "block"

\* C5: once validate_skill has been called on a file path, the hook ends
\* with block on stdout and exit code 2 exactly when errors were accumulated,
\* the bullets being the accumulated errors in their order under the headline
\* reason, and with continue=true, the success message and exit code 0 when
\* none was.
C5_BlockIffErrors ==
    HookDone /\ called /\ stdin.kind = "ok" =>
        IF herrors # <<>>
        THEN /\ OneDecision("stdout", "block") /\ hexit = 2
             /\ out[1].bullets = herrors
             /\ out[1].reason = Msg("Skill validation failed for", stdin.path.base, 0)
        ELSE /\ OneDecision("stdout", "continue") /\ hexit = 0
             /\ out[1].reason = Msg("Skill validation passed", stdin.path.base, 0)

\* C6: when standard input is not JSON or lacks tool_input.file_path,
\* validate_skill is never called, nothing is read or written, and the hook
\* ends with one block decision on stderr that carries the parse-error reason,
\* exit code 2.
C6_ParseErrorBeforeValidation ==
    stdin.kind \in {"not_json", "not_object", "no_tool_input", "tool_input_not_object",
                    "no_file_path"} =>
        /\ ~called /\ reads = {} /\ writes = {}
        /\ hpc \in {"Idle", "ParsingInput", "Terminated"}
        /\ HookDone =>
             /\ OneDecision("stderr", "block") /\ hexit = 2
             /\ out[1].reason.kind = "Validator error: Failed to parse hook input"
             /\ out[1].bullets = <<>>

C6_Witness ==
    /\ HookDone /\ stdin.kind = "no_file_path" /\ hexit = 2
    /\ fs.file.readable /\ fs.dirFiles # {}

\* C7: a write whose base name is not SKILL.md is never validated: neither
\* the file nor its directory is read, and the hook ends with continue=true
\* and exit code 0, whatever the file and the directory hold.
C7_NonManifestSkipped ==
    stdin.kind = "ok" /\ stdin.path.base # "SKILL.md" =>
        /\ reads = {} /\ writes = {}
        /\ hpc # "Validating"
        /\ HookDone => OneDecision("stdout", "continue") /\ hexit = 0

C7_Witness ==
    /\ HookDone /\ stdin.kind = "ok" /\ stdin.path.base = "README.md"
    /\ ~fs.file.readable /\ "README.md" \in fs.dirFiles
    /\ hexit = 0 /\ visited = <<"Idle", "ParsingInput", "Skipped", "Deciding", "Terminated">>

\* the manifest has no defect: readable, a mapping, name and description
\* non-empty, description at least 50 long
ManifestValid(file) ==
    /\ HookFrontmatterError(file) = ""
    /\ LET fm == HookFrontmatter(file) IN
       /\ In("name", fm) /\ Truthy(fm.name)
       /\ In("description", fm) /\ HasLen(fm.description) /\ fm.description.n >= 50

\* C8 as claimed: for every SKILL.md write, whatever the manifest holds, a
\* non-empty set S of forbidden files in its directory gives block, exit
\* code 2 and exactly one forbidden-file error per member of S; with S empty
\* and a valid manifest the hook exits 0 with continue=true.
C8_Original ==
    HookDone /\ ManifestWrite =>
        /\ fs.dirFiles # {} =>
             /\ OneDecision("stdout", "block") /\ hexit = 2
             /\ Len(Forbidden(out[1].bullets)) = Cardinality(fs.dirFiles)
             /\ {m.what : m \in Range(Forbidden(out[1].bullets))} = fs.dirFiles
        /\ fs.dirFiles = {} /\ ManifestValid(fs.file) =>
             OneDecision("stdout", "continue") /\ hexit = 0

\* C8 as amended: the forbidden-file check runs only when the manifest is
\* readable, its frontmatter is a mapping and its description, if present,
\* has a length.  Then there is exactly one forbidden-file error per member of
\* S, in the order of FORBIDDEN_FILES, and block with exit code 2 when S is not
\* empty.  When the file is unreadable or frontmatter extraction fails, the
\* hook blocks with that single error and no forbidden-file error; when the
\* description has no length, the hook ends with exit code 1 and no decision.
\* With S empty and a valid manifest the hook exits 0 with continue=true.
C8_ForbiddenFilesAfterFrontmatter ==
    HookDone /\ ManifestWrite =>
        IF HookFrontmatterError(fs.file) # ""
        THEN /\ OneDecision("stdout", "block") /\ hexit = 2
             /\ Len(out[1].bullets) = 1
             /\ Forbidden(out[1].bullets) = <<>>
        ELSE IF LET fm == HookFrontmatter(fs.file) IN
                In("description", fm) /\ ~HasLen(fm.description)
        THEN hexit = 1 /\ Len(out) = 1 /\ out[1].kind = "traceback"
        ELSE /\ Len(out) = 1 /\ out[1].kind = "decision"
             /\ Len(Forbidden(out[1].bullets)) = Cardinality(fs.dirFiles)
             /\ {m.what : m \in Range(Forbidden(out[1].bullets))} = fs.dirFiles
             /\ \A i, j \in 1..Len(FORBIDDEN_FILES) :
                    i < j /\ {FORBIDDEN_FILES[i], FORBIDDEN_FILES[j]} \subseteq fs.dirFiles =>
                    \E a, b \in 1..Len(out[1].bullets) :
                        /\ a < b
                        /\ out[1].bullets[a] = Msg("Forbidden file found", FORBIDDEN_FILES[i], 0)
                        /\ out[1].bullets[b] = Msg("Forbidden file found", FORBIDDEN_FILES[j], 0)
             /\ fs.dirFiles # {} => OneDecision("stdout", "block") /\ hexit = 2
             /\ fs.dirFiles = {} /\ ManifestValid(fs.file) =>
                    OneDecision("stdout", "continue") /\ hexit = 0

C8_Witness ==
    /\ HookDone /\ ManifestWrite /\ ManifestValid(fs.file)
    /\ fs.dirFiles = {"README.md", "CHANGELOG.md"}
    /\ hexit = 2
    /\ out[1].bullets = <<Msg("Forbidden file found", "README.md", 0),
                          Msg("Forbidden file found", "CHANGELOG.md", 0)>>

\* C9: for a SKILL.md whose frontmatter is a mapping, each of name and
\* description gives a missing-required-field error when the key is absent
\* and a field-cannot-be-empty error when it is present with an empty value,
\* and in both cases the hook ends with block and exit code 2.
C9_RequiredFieldsBlock ==
    HookDone /\ ManifestWrite /\ HookFrontmatterError(fs.file) = "" =>
        LET fm == HookFrontmatter(fs.file) IN
        \A f \in Range(REQUIRED_FIELDS) :
            /\ ~In(f, fm) =>
                 /\ OneDecision("stdout", "block") /\ hexit = 2
                 /\ Msg("Missing required field", f, 0) \in Range(out[1].bullets)
            /\ In(f, fm) /\ ~Truthy(Get(fm, f)) =>
                 /\ OneDecision("stdout", "block") /\ hexit = 2
                 /\ Msg("Field cannot be empty", f, 0) \in Range(out[1].bullets)

\* the manifest's only defect is a string description shorter than 50
OnlyShortDescription(file) ==
    /\ HookFrontmatterError(file) = ""
    /\ LET fm == HookFrontmatter(file) IN
       /\ In("name", fm) /\ Truthy(fm.name)
       /\ In("description", fm) /\ fm.description.t = "str"
       /\ 0 < fm.description.n /\ fm.description.n < 50

BatchEnded == bexit # NoExit

\* C1: the batch process exits 0 exactly when no ValidationResult it
\* produced has valid = false and exits 1 otherwise, whatever the warnings.
C1_ExitIffInvalidResult ==
    BatchEnded =>
        /\ bexit \in {0, 1}
        /\ bexit = 0 <=> \A i \in 1..Len(results) : results[i].valid

C3_FailuresIsolated ==
    /\ curFile.kind \in {"agent", "skill"} => bpc # "crashed"
    /\ bpc = "done" =>
         /\ report.printed /\ report.total = Len(results)
         /\ bexit = IF has_errors THEN 1 ELSE 0

(***************************************************************************)
(* CLAIMS ABOUT validate_agent AND validate_skill (SpecValidate)           *)
(***************************************************************************)
\* the document main() hands to the validator can be read as text
HasText(f) == f.readable /\ (f.kind = "skill" => f.has_manifest)

\* the validation returned its result to main()
Returned == results # <<>>

\* the fresh result of the file
Fresh(f) == Result(FileId(f.kind, 1, f.name))

\* the text does not begin with the delimiter
NoOpening(c) == c = <<>> \/ ~c[1].delim

\* the text begins with the delimiter and holds no other one
Unclosed(c) == c # <<>> /\ c[1].delim /\ \A i \in 2..Len(c) : ~c[i].delim

\* C11: an agent or skill document whose text does not begin with --- is
\* never taken past frontmatter extraction, and its validation returns
\* valid = false with the one error "Missing YAML frontmatter (must start
\* with ---)", which mentions "frontmatter".
C11_NoFrontmatterFails ==
    HasText(curFile) /\ NoOpening(curFile.content) =>
        /\ bpc # "crashed"
        /\ fpc \in {"extract", "manifest", "none"}
        /\ fpc # "none" => ENABLED ValidateNext
        /\ fpc = "none" =>
             /\ Len(results) = 1
             /\ ~results[1].valid
             /\ results[1].errors =
                    <<Msg("Missing YAML frontmatter (must start with ---)", "", 0)>>

C11_Witness ==
    /\ Returned /\ curFile.kind = "skill"
    /\ Len(curFile.content) = 4 /\ ~curFile.content[1].delim /\ curFile.content[2].delim
    /\ curFile.scripts # <<>>
    /\ ~results[1].valid /\ Len(results[1].errors) = 1

\* C12: a document whose frontmatter block is opened with --- and never
\* closed is never taken to the field checks, and its result holds exactly
\* one error, "Invalid frontmatter format (missing closing ---)".
C12_UnclosedFrontmatter ==
    HasText(curFile) /\ Unclosed(curFile.content) =>
        /\ bpc # "crashed"
        /\ fpc \in {"extract", "manifest", "none"}
        /\ fpc # "none" => ENABLED ValidateNext
        /\ fpc = "none" =>
             /\ Len(results) = 1
             /\ results[1].errors =
                    <<Msg("Invalid frontmatter format (missing closing ---)", "", 0)>>

C12_Witness ==
    /\ Returned /\ curFile.kind = "agent"
    /\ Len(curFile.content) = 2 /\ Unclosed(curFile.content)
    /\ ~In("name", curFile.content[2].y)
    /\ Len(results[1].errors) = 1

\* the frontmatter block is closed and parses, without a YAML error, to
\* nothing (None, the mapping {}) or to a value that is no mapping
NonMappingDoc(f) ==
    /\ HasText(f) /\ ~NoOpening(f.content) /\ ~Unclosed(f.content)
    /\ LET y == YamlLoad(Split2(f.content)[2]) IN
       \/ y.t \in {"none", "str", "list", "int"}
       \/ y.t = "dict" /\ y.keys = {}

\* C13: when the frontmatter block parses to an empty result or to a value
\* that is no mapping (a scalar, a sequence), no field check is attempted on
\* the value and the validation fails with the single error "Empty
\* frontmatter": valid = false, errors = ["Empty frontmatter"].
C13_EmptyOrNonMapping ==
    NonMappingDoc(curFile) =>
        /\ bpc # "crashed"
        /\ fpc \in {"extract", "manifest", "none"}
        /\ fpc = "none" =>
             results = <<Fail(Fresh(curFile), Msg("Empty frontmatter", "", 0))>>

\* what the frontmatter block of a closed document parses to
Parsed(f) == YamlLoad(Split2(f.content)[2])

\* frontmatter extraction fails: no SKILL.md, no opening or no closing
\* delimiter, a block the parser rejects with a YAML error, an empty result
ExtractionFails(f) ==
    \/ f.kind = "skill" /\ ~f.has_manifest
    \/ /\ HasText(f)
       /\ \/ NoOpening(f.content)
          \/ Unclosed(f.content)
          \/ Parsed(f).t \in {"err_mapping", "err_other", "none"}
          \/ Parsed(f).t = "dict" /\ Parsed(f).keys = {}

\* frontmatter extraction succeeds: the block parses to a non-empty mapping
ExtractionSucceeds(f) ==
    /\ HasText(f) /\ ~NoOpening(f.content) /\ ~Unclosed(f.content)
    /\ Parsed(f).t = "dict" /\ Parsed(f).keys # {}

\* the kinds of the messages of a result, and the checks they come from
Kinds(r) == {m.kind : m \in Range(r.errors) \cup Range(r.warnings)}
FieldKinds ==
    {"Missing required field", "name doesn't match directory", "Description is very short"}
ReferenceKinds == {"Referenced file not found", "Referenced path not found"}
ScriptKinds == {"Python syntax error in", "Shell script missing shebang"}

\* C14: within one skill's validation the checks run in the order
\* frontmatter extraction, required fields, references, scripts, and
\* accumulate into one result.  When extraction fails, the result holds that
\* one error and no warning and no later check runs.  When extraction
\* succeeds, every later check runs, whatever the earlier ones added: the
\* validation does not end before the script lint and its result is the one
\* the three checks build together.
C14_SkillChecksInOrder ==
    curFile.kind = "skill" =>
        /\ fpc \in {"manifest", "fields"} => Kinds(cur) = {}
        /\ fpc = "references" => Kinds(cur) \subseteq FieldKinds
        /\ fpc = "scripts" => Kinds(cur) \subseteq FieldKinds \cup ReferenceKinds
        /\ ExtractionFails(curFile) =>
             /\ bpc # "crashed"
             /\ fpc \in {"manifest", "none"}
             /\ Returned =>
                  /\ ~results[1].valid /\ Len(results[1].errors) = 1
                  /\ results[1].warnings = <<>>
        /\ ExtractionSucceeds(curFile) =>
             /\ bpc # "crashed"
             /\ Returned =>
                  LET fields == SkillFieldsStep(Fresh(curFile), Parsed(curFile), curFile.name).r
                      refs   == CheckSkillReferences(curFile.name, BodyOf(curFile.content),
                                                     fields).r IN
                  results[1] = CheckSkillScripts(curFile, refs).r

\* a regular .py file of scripts/ whose compilation raises SyntaxError
Broken(sc) == sc.is_file /\ sc.suffix = ".py" /\ sc.state = "syntax_error"

BrokenScripts(f) == {sc \in Range(f.scripts) : Broken(sc)}

\* the same skill without its broken scripts
WithoutBroken(f) == [f EXCEPT !.scripts = SelectSeq(@, LAMBDA sc : ~Broken(sc))]

\* a regular .py or .sh file of scripts/ cannot be read as text
SomeScriptUndecodable(f) ==
    \E sc \in Range(f.scripts) :
        sc.is_file /\ sc.suffix \in {".py", ".sh"} /\ sc.state = "undecodable"

\* the body of a skill that is not skill-creator refers to a path on which
\* Path.exists raises
SomeReferenceUnstatable(f) ==
    /\ f.name # "skill-creator"
    /\ \E ref \in Range(RefsOf(BodyOf(f.content))) : ref.target = "long"

SyntaxErrors(r) == SelectSeq(r.errors, LAMBDA m : m.kind = "Python syntax error in")

C16_AgentRequiredFields ==
    curFile.kind = "agent" /\ ExtractionSucceeds(curFile) =>
        /\ bpc # "crashed"
        /\ fpc # "none" => ENABLED ValidateNext
        /\ fpc = "none" =>
             /\ Returned
             /\ \A field \in {"name", "description"} :
                    Msg("Missing required field", field, 0) \in Range(results[1].errors)
                        <=> ~In(field, Parsed(curFile))
             /\ Len(results[1].errors) =
                    Cardinality({"name", "description"} \ Parsed(curFile).keys)
             /\ ~results[1].valid <=> {"name", "description"} \ Parsed(curFile).keys # {}

\* the messages of one kind among a sequence of messages
OfKind(msgs, kind) == SelectSeq(msgs, LAMBDA m : m.kind = kind)

\* C17: in the batch validator the threshold is 20 for agents and 30 for
\* skills.  A present description with a length below the threshold, 19 or
\* 29 in particular, yields exactly one short-description warning, and one of
\* the threshold's length or more yields none: so it is in the result right
\* after the field checks and in the result returned.  The finding is never
\* an error and valid does not depend on it; the description check itself
\* never raises on such a description: a validation that raises does so in
\* the reference check or in the script lint.
C17_ShortDescriptionWarning ==
    ( /\ ExtractionSucceeds(curFile)
      /\ In("description", Parsed(curFile))
      /\ HasLen(Parsed(curFile).description) ) =>
        LET t      == IF curFile.kind = "agent" THEN 20 ELSE 30
            expect == IF Parsed(curFile).description.n < t
                      THEN <<Msg("Description is very short", "", t)>> ELSE <<>> IN
        /\ fpc \in {"model", "references", "scripts"} =>
               /\ OfKind(cur.warnings, "Description is very short") = expect
               /\ OfKind(cur.errors, "Description is very short") = <<>>
               /\ cur.valid <=> cur.errors = <<>>
        /\ Returned =>
               /\ OfKind(results[1].warnings, "Description is very short") = expect
               /\ OfKind(results[1].errors, "Description is very short") = <<>>
               /\ results[1].valid <=> results[1].errors = <<>>
        /\ bpc = "crashed" =>
               SomeReferenceUnstatable(curFile) \/ SomeScriptUndecodable(curFile)
        /\ fpc = "fields" => ENABLED ValidateNext

C17_Witness ==
    /\ Returned /\ curFile.kind = "skill" /\ ExtractionSucceeds(curFile)
    /\ Parsed(curFile).name = PyStr("foo", 3)
    /\ Parsed(curFile).description.t = "str" /\ Parsed(curFile).description.n = 29
    /\ results[1].valid
    /\ results[1].warnings = <<Msg("Description is very short", "", 30)>>

\* C18: for a skill directory D whose frontmatter has the name N, the result
\* right after the field checks and the result returned hold exactly one
\* name-mismatch warning, naming N and D, when N differs from D, and none when
\* N equals D; no error is a name-mismatch message, and a mismatch alone
\* leaves the result valid.
C18_NameMismatchWarning ==
    ( /\ curFile.kind = "skill" /\ ExtractionSucceeds(curFile)
      /\ In("name", Parsed(curFile)) ) =>
        LET N      == Parsed(curFile).name
            D      == curFile.name
            expect == IF N.t = "str" /\ N.s = D THEN <<>>
                      ELSE <<Msg2("name doesn't match directory", N.s, D)>>
            ok(r)  == /\ OfKind(r.warnings, "name doesn't match directory") = expect
                      /\ OfKind(r.errors, "name doesn't match directory") = <<>>
                      /\ r.valid <=> r.errors = <<>> IN
        /\ fpc \in {"references", "scripts"} => ok(cur)
        /\ Returned => ok(results[1])

C18_Witness ==
    /\ Returned /\ curFile.kind = "skill" /\ ExtractionSucceeds(curFile)
    /\ curFile.name = "foo" /\ Parsed(curFile).name = PyStr("bar", 3)
    /\ results[1].valid
    /\ OfKind(results[1].warnings, "name doesn't match directory") =
           <<Msg2("name doesn't match directory", "bar", "foo")>>

\* the same document with the model field removed from its frontmatter
WithoutModel(f) ==
    [f EXCEPT !.content[2].y.model = PyAbsent, !.content[2].y.keys = @ \ {"model"}]

\* the model field is present with a value outside opus, sonnet, haiku, inherit
UnknownModel(fm) ==
    /\ In("model", fm)
    /\ ~(fm.model.t = "str" /\ fm.model.s \in {"opus", "sonnet", "haiku", "inherit"})

\* C19 as stated: an agent document with a model outside the set gets one
\* model warning and no model error, and valid and errors are those of the
\* same document with the model field removed; a model inside the set or an
\* absent one gets no model warning.
C19_Original ==
    (curFile.kind = "agent" /\ ExtractionSucceeds(curFile) /\ Returned) =>
        LET fm   == Parsed(curFile)
            base == ValidateAgent(WithoutModel(curFile)) IN
        /\ OfKind(results[1].errors, "Unknown model") = <<>>
        /\ OfKind(results[1].warnings, "Unknown model") =
               IF UnknownModel(fm) THEN <<Msg("Unknown model", fm.model.s, 0)>> ELSE <<>>
        /\ UnknownModel(fm) =>
               /\ base.done
               /\ results[1].valid = base.r.valid
               /\ results[1].errors = base.r.errors

\* C19, amended: for an agent document whose frontmatter is a non-empty
\* mapping, a model outside the set gets exactly one model warning, appended
\* last, and a model inside the set or an absent one gets none; no error is a
\* model message; valid is that of the same document with the model field
\* removed; errors and the other warnings are those of that document too when
\* the mapping has a field besides model, and when model is the only field
\* the errors are the two missing-field errors where the document without it
\* has the single error of an empty frontmatter.  The validation raises only
\* when it raises on the document without the model field.
C19_UnknownModelWarns ==
    (curFile.kind = "agent" /\ ExtractionSucceeds(curFile)) =>
        LET fm     == Parsed(curFile)
            base   == ValidateAgent(WithoutModel(curFile))
            expect == IF UnknownModel(fm)
                      THEN <<Msg("Unknown model", fm.model.s, 0)>> ELSE <<>> IN
        /\ Returned =>
               /\ OfKind(results[1].errors, "Unknown model") = <<>>
               /\ OfKind(results[1].warnings, "Unknown model") = expect
               /\ base.done /\ results[1].valid = base.r.valid
               /\ IF fm.keys = {"model"}
                  THEN /\ results[1].errors =
                              <<Msg("Missing required field", "name", 0),
                                Msg("Missing required field", "description", 0)>>
                       /\ results[1].warnings = expect
                       /\ base.r.errors = <<Msg("Empty frontmatter", "", 0)>>
                  ELSE /\ results[1].errors = base.r.errors
                       /\ results[1].warnings = base.r.warnings \o expect
        /\ bpc = "crashed" => base.exc # ""

C19_Witness ==
    /\ Returned /\ curFile.kind = "agent" /\ ExtractionSucceeds(curFile)
    /\ Parsed(curFile).model = PyStr("gpt", 3)
    /\ results[1].valid
    /\ results[1].warnings = <<Msg("Unknown model", "gpt", 0)>>

\* the number of occurrences of x in a sequence
Count(seq, x) == Cardinality({i \in 1..Len(seq) : seq[i] = x})

\* C20: check_skill_references, run on the body of a skill, ends and leaves
\* errors and valid as they are; it appends to the warnings one
\* reference warning for each occurrence of a reference that is neither an
\* http://, https:// or # target nor an existing path, and nothing else;
\* for the directory skill-creator it appends nothing.
C20_ReferenceWarnings ==
    [][ (curFile.kind = "skill" /\ fpc = "references") =>
          LET refs     == RefsOf(BodyOf(curFile.content))
              dangling == IF curFile.name = "skill-creator" THEN <<>>
                          ELSE SelectSeq(refs, LAMBDA x :
                                   x.target \notin {"http", "https", "anchor"} /\ ~x.exists)
              paths    == [i \in 1..Len(dangling) |-> dangling[i].path]
              old      == Len(cur.warnings)
              added    == SubSeq(cur'.warnings, old + 1, Len(cur'.warnings)) IN
          /\ bpc' # "crashed" /\ fpc' = "scripts"
          /\ cur'.errors = cur.errors /\ cur'.valid = cur.valid
          /\ Len(cur'.warnings) = old + Len(dangling)
          /\ SubSeq(cur'.warnings, 1, old) = cur.warnings
          /\ \A i \in 1..Len(added) :
                 /\ added[i].kind \in {"Referenced file not found",
                                       "Referenced path not found"}
                 /\ Count([j \in 1..Len(added) |-> added[j].what], added[i].what)
                        = Count(paths, added[i].what)
      ]_vars

(***************************************************************************)
(* CLAIMS ABOUT THE JSON CHECKS AND THE OUTPUT OF main() (SpecBatch)       *)
(***************************************************************************)
\* the state of the target file, settings.json or .mcp.json, of a result
TargetOf(r) == IF r.file.kind = "settings" THEN tree.settings.target ELSE tree.mcp.target

\* the results of the two JSON checks
JsonResults == SelectSeq(results, LAMBDA r : r.file.kind \in {"settings", "mcp"})

\* C21: the result of a target file that parses and violates its schema has
\* valid = false, no warning and exactly one error entry, the message of the
\* violation, whether the violation has a path or not.
C21_OneSchemaError ==
    \A r \in Range(JsonResults) :
        TargetOf(r) \in {"violates", "violates_at"} =>
            /\ ~r.valid /\ r.warnings = <<>>
            /\ Len(r.errors) = 1
            /\ r.errors[1].kind = "Schema validation"

\* the result appended last
LastResult == results[Len(results)]

\* C22: once main() has passed the check of a target file that exists and is
\* not parseable as JSON (a text that is no JSON, or bytes that are no text),
\* the run has not ended in an exception and the file's result is the one
\* appended last: valid = false, the single error "Invalid JSON", no warning,
\* no schema violation.
C22_InvalidJsonSingleError ==
    (curFile.kind \in {"settings", "mcp"} /\ curFile.target \in {"not_json", "undecodable"}) =>
        /\ bpc # "crashed"
        /\ results # <<>>
        /\ LastResult.file.kind = curFile.kind
        /\ ~LastResult.valid
        /\ LastResult.errors = <<Msg("Invalid JSON", "", 0)>>
        /\ LastResult.warnings = <<>>

\* C23: when a target file is absent and its schema is loaded, the check
\* does not raise and its result, the one appended last, is valid with no
\* error and the single warning "File not found: <file>"; the run's error
\* flag is left as it was, so a run that exits 1 has a result with
\* valid = false, which is never the one of an absent target.
C23_AbsentTargetWarns ==
    /\ (curFile.kind \in {"settings", "mcp"} /\ curFile.target = "absent") =>
           /\ bpc # "crashed" /\ results # <<>>
           /\ LastResult.file.kind = curFile.kind
           /\ LastResult.valid /\ LastResult.errors = <<>>
           /\ LastResult.warnings = <<Msg("File not found", LastResult.file.name, 0)>>
           /\ has_errors <=> \E i \in 1..(Len(results) - 1) : ~results[i].valid
    /\ \A r \in Range(JsonResults) : TargetOf(r) = "absent" => r.valid
    /\ (bpc = "done" /\ bexit = 1) =>
           \E r \in Range(results) :
               ~r.valid /\ (r.file.kind \in {"settings", "mcp"} => TargetOf(r) # "absent")

C23_Witness ==
    /\ bpc = "done" /\ bexit = 0
    /\ tree.settings = JsonIn("ok", "absent") /\ tree.mcp = JsonIn("ok", "absent")
    /\ Len(results) = 2
    /\ \A i \in 1..2 : results[i].valid /\ Len(results[i].warnings) = 1

\* the state of the schema file of a JSON check
SchemaOf(kind) == IF kind = "settings" THEN tree.settings.schema ELSE tree.mcp.schema

\* C24: a JSON check whose schema file is absent leaves no result and does
\* not end the run, which goes on to the next stage with its error flag
\* unset unless some result is invalid; a JSON check whose schema file is
\* present is performed: the target file is looked at.
C24_SchemaOptional ==
    /\ \A r \in Range(JsonResults) : SchemaOf(r.file.kind) # "absent"
    /\ has_errors => \E r \in Range(results) : ~r.valid
    /\ (curFile.kind \in {"settings", "mcp"} /\ curFile.schema = "absent") =>
           /\ bpc \notin {"crashed", "settings"}
           /\ curFile.kind = "mcp" => bpc # "mcp"
           /\ \A r \in Range(results) : r.file.kind # curFile.kind
    /\ (curFile.kind \in {"settings", "mcp"} /\ curFile.schema # "absent") =>
           curFile.target # "unread"

\* the numbers of errors and of warnings over all results
ErrorCount ==
    Cardinality(UNION {{<<i, j>> : j \in 1..Len(results[i].errors)} : i \in 1..Len(results)})

WarningCount ==
    Cardinality(UNION {{<<i, j>> : j \in 1..Len(results[i].warnings)} : i \in 1..Len(results)})

\* what the run has appended to the output file, whose first line, when the
\* file was not empty, is the one it held before the run
Appended == IF ghout # <<>> /\ ghout[1].key = "prior" THEN Tail(ghout) ELSE ghout

\* C25: a run with the output channel configured, once it has ended, has
\* appended to the output file error_count and warning_count, the totals over
\* all results, has_errors = true exactly when error_count > 0, and the
\* summary block between its delimiters: one bullet per error, then one per
\* warning, in result order, and the all-valid line exactly when there is
\* neither error nor warning.  What the file held is kept at every step.
C25_GithubOutput ==
    /\ [](tree.github_output /\ bpc \in {"done", "crashed"} =>
            LET new   == Appended
                block == SubSeq(new, 5, Len(new) - 1) IN
            /\ Len(new) >= 5
            /\ new[1] = OutLine("error_count", ErrorCount, "")
            /\ new[2] = OutLine("warning_count", WarningCount, "")
            /\ new[3] = OutLine("has_errors", 0, IF ErrorCount > 0 THEN "true" ELSE "false")
            /\ new[4] = OutLine("summary<<EOF", 0, "")
            /\ new[Len(new)] = OutLine("EOF", 0, "")
            /\ SelectSeq(block, LAMBDA l : l.key = "- ") =
                   Bullets(AllErrors(results)) \o Bullets(AllWarnings(results))
            /\ (\E i \in 1..Len(block) : block[i].key = "All configuration files are valid!")
                   <=> (ErrorCount = 0 /\ WarningCount = 0)
            /\ (ErrorCount = 0 /\ WarningCount = 0) => Len(block) = 1)
    /\ [][Len(ghout') >= Len(ghout) /\ SubSeq(ghout', 1, Len(ghout)) = ghout]_vars

(***************************************************************************)
(* CLAIMS ABOUT THE SCRIPT LINT AND THE TWO SKILL VALIDATORS               *)
(***************************************************************************)
\* the regular files directly under scripts/, in iterdir order
RegularScripts(f) ==
    IF f.scripts_dir THEN SelectSeq(f.scripts, LAMBDA sc : sc.is_file) ELSE <<>>

\* C26: check_skill_scripts, run on a skill none of whose .py scripts is
\* undecodable, ends and returns the result with, appended in iterdir order,
\* one warning for each regular .sh file that does not begin with #! and one
\* error for each regular .py file that does not compile, and nothing else: a
\* .sh file with #!, a file of another extension and a subdirectory add
\* nothing; valid is cleared only with a .py error.
C26_ScriptLint ==
    [][ ( /\ curFile.kind = "skill" /\ fpc = "scripts"
          /\ \A sc \in Range(RegularScripts(curFile)) :
                 ~(sc.suffix = ".py" /\ sc.state = "undecodable") ) =>
          LET files == RegularScripts(curFile)
              sh    == SelectSeq(files, LAMBDA sc : sc.suffix = ".sh" /\ sc.state # "ok")
              py    == SelectSeq(files, LAMBDA sc : sc.suffix = ".py" /\ sc.state # "ok")
              r     == results'[Len(results')] IN
          /\ bpc' # "crashed"
          /\ Len(results') = Len(results) + 1
          /\ r.warnings = cur.warnings \o
                 [i \in 1..Len(sh) |-> Msg("Shell script missing shebang", sh[i].name, 0)]
          /\ r.errors = cur.errors \o
                 [i \in 1..Len(py) |-> Msg("Python syntax error in", py[i].name, 0)]
          /\ r.valid = (cur.valid /\ py = <<>>)
      ]_vars

\* the key is present in the frontmatter with an empty string or with null
EmptyValued(fm, field) ==
    /\ fm.t = "dict" /\ In(field, fm)
    /\ Get(fm, field) \in {PyNone, PyStr("", 0)}

\* C27: for a SKILL.md whose name or description key is present with an
\* empty string or null, the batch validator does not raise and the result it
\* returns holds no missing-required-field error for that key, whereas the
\* hook ends with a block decision, exit code 2, that lists the
\* field-cannot-be-empty error of that key.
C27_EmptyFieldDiscrepancy ==
    \A field \in {"name", "description"} :
        (ExtractionSucceeds(curFile) /\ EmptyValued(Parsed(curFile), field)) =>
            /\ bpc # "crashed"
            /\ Returned =>
                   Msg("Missing required field", field, 0) \notin Range(results[1].errors)
            /\ hpc = "Terminated" =>
                   /\ hexit = 2
                   /\ \E i \in 1..Len(out) :
                          /\ out[i].decision = "block"
                          /\ Msg("Field cannot be empty", field, 0) \in Range(out[i].bullets)

\* C28: when a run with the output channel configured has ended, the line
\* has_errors=true is in what it appended to the output file exactly when the
\* exit code is 1, and the line error_count=0 exactly when the exit code is 0.
C28_SignalsAgree ==
    (tree.github_output /\ bpc \in {"done", "crashed"}) =>
        /\ OutLine("has_errors", 0, "true") \in Range(Appended) <=> bexit = 1
        /\ OutLine("error_count", 0, "") \in Range(Appended) <=> bexit = 0

(***************************************************************************)
(* CLAIMS ABOUT THE ORDER OF DISCOVERY (SpecOrder)                         *)
(***************************************************************************)
\* what validating each file of the tree yields, whatever the order in which
\* the files are met: the target of the settings schema, the agent files
\* that are not skipped and the skill directories that are not skipped
TreeOutcomes ==
    {ValidateJsonFile(FileId("settings", 0, "settings.json"), tree.settings.target)}
    \cup {ValidateAgent(f) : f \in {g \in Range(tree.agents) : g.name # "AGENTS-README.md"}}
    \cup {ValidateSkill(f) :
            f \in {g \in Range(tree.skills) : g.is_dir /\ g.name \notin SKIP_DIRS}}

\* the number of messages of one list, errors or warnings, over a set of results
Total(rs, list) ==
    Cardinality(UNION {{<<r, j>> : j \in 1..Len(IF list = "errors" THEN r.errors
                                                   ELSE r.warnings)} : r \in rs})

\* C29: what a run that has ended leaves is a function of the file tree alone,
\* the same for every order in which agents/ and skills/ are enumerated.  If
\* validating some file of the tree raises, the run ends in the exception with
\* exit code 1, nothing printed and nothing written; otherwise the exit code
\* is 1 exactly when some file of the tree is invalid, the results are the
\* files' results, one per file, and the valid count, the total, error_count
\* and warning_count are the sums over the files of the tree.
C29_OrderIndependent ==
    bpc \in {"done", "crashed"} =>
        LET outs == TreeOutcomes
            rs   == {o.r : o \in outs} IN
        IF \E o \in outs : o.exc # ""
        THEN bpc = "crashed" /\ bexit = 1 /\ ~report.printed /\ ghout = <<>>
        ELSE /\ bpc = "done"
             /\ bexit = IF \E r \in rs : ~r.valid THEN 1 ELSE 0
             /\ Range(results) = rs /\ Len(results) = Cardinality(rs)
             /\ report.printed
             /\ report.valid_count = Cardinality({r \in rs : r.valid})
             /\ report.total = Cardinality(rs)
             /\ \E l \in Range(ghout) : l.key = "error_count"
             /\ \A l \in Range(ghout) :
                    /\ l.key = "error_count" => l.n = Total(rs, "errors")
                    /\ l.key = "warning_count" => l.n = Total(rs, "warnings")

\* a run has ended over a tree whose skills/ yields an invalid directory
\* first and a valid one after it, and whose agents/ yields two files
C29_Witness ==
    /\ bpc = "done" /\ bexit = 1
    /\ Len(tree.agents) = 2 /\ Len(tree.skills) = 2
    /\ tree.skills[1].name = "empty" /\ tree.skills[2].name = "foo"
    /\ tree.settings.target = "valid"
    /\ \A i \in 1..2 : tree.agents[i].name \in {"terse.md", "reviewer.md"}

(***************************************************************************)
(* CLAIMS ABOUT THE TWO SKILL VALIDATORS SIDE BY SIDE (SpecSideBySide)     *)
(***************************************************************************)
\* C30: when the hook has allowed the write of SKILL.md (exit code 0) and
\* validate_skill of the batch validator has ended on the same directory, the
\* batch validator has returned a result for the directory; every error of
\* the result is a Python syntax error of a bundled script (none is a
\* frontmatter error or a missing-required-field error), no warning is the
\* short-description warning, and the result is valid exactly when no
\* bundled script fails to compile.
C30_HookAllowImpliesBatchClean ==
    (hpc = "Terminated" /\ hexit = 0 /\ fpc = "none") =>
        /\ bpc # "crashed" /\ Returned
        /\ \A m \in Range(results[1].errors) : m.kind = "Python syntax error in"
        /\ \A m \in Range(results[1].warnings) : m.kind # "Description is very short"
        /\ results[1].valid <=> SyntaxErrors(results[1]) = <<>>

\* the converse of C30 fails: the batch validator returns a valid result
\* without the short-description warning, and the hook blocks the write
C30_BatchValidHookBlocks ==
    /\ hpc = "Terminated" /\ hexit = 2
    /\ Returned /\ results[1].valid
    /\ \A m \in Range(results[1].warnings) : m.kind # "Description is very short"

====
